---- MODULE Spec2Model ----
(***************************************************************************)
(* Model of the query orchestration pipeline of october_backend:           *)
(* AIHandler.QueryHandler -> OpenAIService.ProcessQuery -> AnalyzeQuery,   *)
(* retrieveRelevantArticles, the confidence gate, the Google custom search *)
(* and the three generation calls, together with the news store that the   *)
(* retrieval reads and the feed ingestion that fills it.                    *)
(*                                                                         *)
(* Strings are TLA+ strings; Go's strings.Contains / ToLower / TrimSpace   *)
(* are computed on them character by character.  Relevance scores and      *)
(* confidences are fixed-point numbers: One stands for 1.0, and every      *)
(* score the code produces is a multiple of Tenth, so the sums, means and  *)
(* products of the code are exact integers here.                           *)
(***************************************************************************)
EXTENDS Integers, Sequences, FiniteSets, TLC, Bags

VARIABLES
    collection,     \* the articles collection of the news store (set of Article)
    pc,             \* position of the request inside QueryHandler / ProcessQuery
    req,            \* the decoded ai.QueryRequest
    analysis,       \* result of AnalyzeQuery (Nil before it returned)
    sources,        \* result of retrieveRelevantArticles
    searchResults,  \* result of SearchDefenseAndAerospace
    calls,          \* external calls issued for the current request, in order
    response,       \* the *ai.QueryResponse returned by ProcessQuery (Nil if none)
    err,            \* the error returned by ProcessQuery ("" if none)
    strategy,       \* which return statement of ProcessQuery produced the response
    status,         \* HTTP status written by QueryHandler (0 while in flight)
    cache,          \* MemoryCache.cache: article id -> *ai.CachedSummary
    clock,          \* time.Now(), in hours since the start of the process
    summarize,      \* the SummarizeArticle calls in flight: a bag of [pc, articleID]
    returned,       \* what the last SummarizeArticle call that returned gave its caller
    lastSet,        \* per key: the last Set, while no Set, Delete, Clear or eviction followed
    stats,          \* per article id: calls started, generations invoked, summaries generated
    shutdownRequested,  \* the interrupt signal was received by main
    mu,             \* MemoryCache.mu: read locks held and whether the write lock is
    ops             \* the MemoryCache methods in progress: a bag of [method, articleID, branch, pc]

queryVars == <<pc, req, analysis, sources, searchResults, calls,
               response, err, strategy, status>>

cacheVars == <<cache, clock, summarize, returned, lastSet, stats, shutdownRequested>>

lockVars == <<mu, ops>>

vars == <<collection, pc, req, analysis, sources, searchResults, calls,
          response, err, strategy, status,
          cache, clock, summarize, returned, lastSet, stats, shutdownRequested,
          mu, ops>>

Nil == [nil |-> TRUE]

(***************************************************************************)
(* Bounds of the model.                                                    *)
(***************************************************************************)
MaxHints == 1       \* longest company_context list of a request
MaxItems == 3       \* most items in one Google custom search response
MaxCallers == 2     \* SummarizeArticle calls in flight at the same time
MaxCalls == 3       \* SummarizeArticle calls started in one behaviour
MaxTicks == 3       \* advances of the clock in one behaviour

(***************************************************************************)
(* Fixed-point arithmetic.                                                 *)
(***************************************************************************)
Tenth == 252 * 1000
One == 10 * Tenth

(***************************************************************************)
(* Go strings.                                                             *)
(***************************************************************************)
Contains(s, substr) ==
    \E i \in 1..(Len(s) - Len(substr) + 1) : SubSeq(s, i, i + Len(substr) - 1) = substr

HasPrefix(s, prefix) ==
    Len(s) >= Len(prefix) /\ SubSeq(s, 1, Len(prefix)) = prefix

HasSuffix(s, suffix) ==
    Len(s) >= Len(suffix) /\ SubSeq(s, Len(s) - Len(suffix) + 1, Len(s)) = suffix

UpperLetters == "ABCDEFGHIJKLMNOPQRSTUVWXYZ"
LowerLetters == "abcdefghijklmnopqrstuvwxyz"

\* unicode.ToLower on one character, as a table.
LowerTable ==
    [c \in {SubSeq(UpperLetters, i, i) : i \in 1..Len(UpperLetters)} |->
        LET i == CHOOSE k \in 1..Len(UpperLetters) : SubSeq(UpperLetters, k, k) = c
        IN  SubSeq(LowerLetters, i, i)]

LowerRune(c) == IF c \in DOMAIN LowerTable THEN LowerTable[c] ELSE c

RECURSIVE ToLower(_)
ToLower(s) ==
    IF Len(s) = 0 THEN ""
    ELSE IF Len(s) = 1 THEN LowerRune(s)
    ELSE LET h == Len(s) \div 2
         IN  ToLower(SubSeq(s, 1, h)) \o ToLower(SubSeq(s, h + 1, Len(s)))

IsSpace(c) == c \in {" ", "\t", "\n", "\r"}

\* strings.TrimSpace drops the leading white space ...
TrimLeft(s) ==
    LET keep == {i \in 1..Len(s) : ~IsSpace(SubSeq(s, i, i))}
    IN  IF keep = {} THEN ""
        ELSE SubSeq(s, CHOOSE i \in keep : \A j \in keep : i <= j, Len(s))

\* ... and the trailing white space.
TrimRight(s) ==
    LET keep == {i \in 1..Len(s) : ~IsSpace(SubSeq(s, i, i))}
    IN  IF keep = {} THEN ""
        ELSE SubSeq(s, 1, CHOOSE i \in keep : \A j \in keep : i >= j)

TrimSpace(s) == TrimRight(TrimLeft(s))

\* Runes of the model that take two bytes in UTF-8.
TwoByteRunes == {"é"}

\* Go's len(string): the number of bytes of the UTF-8 encoding.
ByteLen(s) == Len(s) + Cardinality({i \in 1..Len(s) : SubSeq(s, i, i) \in TwoByteRunes})

\* utf8.RuneCountInString: the number of characters.
RuneCount(s) == Len(s)

RECURSIVE Repeat(_, _)
Repeat(c, n) ==
    IF n = 0 THEN ""
    ELSE IF n = 1 THEN c
    ELSE Repeat(c, n \div 2) \o Repeat(c, n - (n \div 2))

ContainsAny(s, list) == \E i \in 1..Len(list) : Contains(s, list[i])

RECURSIVE SumOf(_, _)
SumOf(f(_), s) == IF s = <<>> THEN 0 ELSE f(Head(s)) + SumOf(f, Tail(s))

Take(s, n) == IF Len(s) > n THEN SubSeq(s, 1, n) ELSE s

(***************************************************************************)
(* The news store: feed ingestion (news.Service, ProcessorService) and the *)
(* article query (news.Service.ListArticles over NewsRepository.List).     *)
(* Dates are day numbers.                                                  *)
(***************************************************************************)
Now == 1000

RTX == "Raytheon Technologies"
WarDept == "US War Department"

\* The RSS feed of each tracked company, oldest publication first in feed
\* order; a fetch returns a prefix of it (the items published so far).
Feed(company) ==
    IF company = RTX THEN
      << [GUID |-> "r1", Link |-> "https://feed.example/r1", Title |-> "RTX update", Summary |-> "Short note", PublishDate |-> Now - 1],
         [GUID |-> "r2", Link |-> "https://feed.example/r2", Title |-> "Raytheon Technologies quarter earnings",
          Summary |-> "Revenue up", PublishDate |-> Now - 2],
         [GUID |-> "r3", Link |-> "https://feed.example/r3", Title |-> "Missile contract for Raytheon Technologies",
          Summary |-> "Raytheon Technologies wins award", PublishDate |-> Now - 3],
         [GUID |-> "r4", Link |-> "https://feed.example/r4", Title |-> "Engine recall",
          Summary |-> "Recall by Raytheon Technologies", PublishDate |-> Now - 200],
         [GUID |-> "r5", Link |-> "https://feed.example/r5", Title |-> "Raytheon Technologies radar contract",
          Summary |-> "Raytheon Technologies", PublishDate |-> Now - 5],
         [GUID |-> "r6", Link |-> "https://feed.example/r6", Title |-> "Raytheon Technologies award",
          Summary |-> "Award to Raytheon Technologies", PublishDate |-> Now - 6] >>
    ELSE
      << [GUID |-> "w1", Link |-> "https://feed.example/w1", Title |-> "Pentagon briefing", Summary |-> "Daily briefing", PublishDate |-> Now - 4],
         [GUID |-> "w2", Link |-> "https://feed.example/w2", Title |-> "Budget request", Summary |-> "US War Department", PublishDate |-> Now - 7],
         [GUID |-> "w3", Link |-> "https://feed.example/w3", Title |-> "Force posture", Summary |-> "Statement", PublishDate |-> Now - 8] >>

TrackedCompanies == {RTX, WarDept}

containsIgnoreCase(s, substr) ==
    /\ Len(s) >= Len(substr)
    /\ \/ s = substr
       \/ /\ Len(s) > Len(substr)
          /\ (HasPrefix(s, substr) \/ HasSuffix(s, substr))

calculateRelevanceScore(item, companyName) ==
    LET base == 5 * Tenth
        t == IF containsIgnoreCase(item.Title, companyName) THEN 3 * Tenth ELSE 0
        u == IF containsIgnoreCase(item.Summary, companyName) THEN 2 * Tenth ELSE 0
        score == base + t + u
    IN  IF score > One THEN One ELSE score

ProcessRSSFeedItem(item, companyName) ==
    [ ID             |-> item.GUID,
      GUID           |-> item.GUID,
      Title          |-> item.Title,
      Summary        |-> item.Summary,
      SourceURL      |-> item.Link,
      Companies      |-> <<companyName>>,
      PublishedDate  |-> item.PublishDate,
      RelevanceScore |-> calculateRelevanceScore(item, companyName) ]

\* Article.Validate: "" when the article is valid, the error otherwise.
Validate(a) ==
    IF a.Title = "" THEN "ErrInvalidTitle"
    ELSE IF a.SourceURL = "" THEN "ErrInvalidSourceURL"
    ELSE IF a.GUID = "" THEN "ErrInvalidGUID"
    ELSE IF a.RelevanceScore < 0 \/ a.RelevanceScore > One THEN "ErrInvalidRelevanceScore"
    ELSE ""

\* news.Service.CreateArticle: the collection after the call.
CreateArticle(coll, a) ==
    IF Validate(a) # "" THEN coll
    ELSE IF \E b \in coll : b.GUID = a.GUID THEN coll
    ELSE coll \cup {a}

RECURSIVE CreateAll(_, _, _)
CreateAll(coll, items, companyName) ==
    IF items = <<>> THEN coll
    ELSE CreateAll(CreateArticle(coll, ProcessRSSFeedItem(Head(items), companyName)),
                   Tail(items), companyName)

\* NewsRepository.buildFilter: does the article match the filter?
buildFilter(filter, a) ==
    /\ filter.Company # "" => \E i \in 1..Len(a.Companies) : a.Companies[i] = filter.Company
    /\ filter.StartDate # Nil => a.PublishedDate >= filter.StartDate.day
    /\ filter.EndDate # Nil => a.PublishedDate <= filter.EndDate.day

\* Sort by published_date descending (buildOptions); dates of the feeds differ.
RECURSIVE SortByDateDesc(_)
SortByDateDesc(S) ==
    IF S = {} THEN <<>>
    ELSE LET newest == CHOOSE a \in S : \A b \in S : b.PublishedDate <= a.PublishedDate
         IN  <<newest>> \o SortByDateDesc(S \ {newest})

\* NewsRepository.List with buildOptions: sorted, skipped and limited.
List(coll, filter) ==
    LET sorted  == SortByDateDesc({a \in coll : buildFilter(filter, a)})
        skipped == IF filter.Offset > 0
                   THEN SubSeq(sorted, filter.Offset + 1, Len(sorted)) ELSE sorted
    IN  IF filter.Limit > 0 THEN Take(skipped, filter.Limit) ELSE skipped

\* validateFilter of news.Service: TRUE when the filter is accepted.
validateFilter(filter) ==
    /\ (filter.StartDate # Nil /\ filter.EndDate # Nil) => filter.StartDate.day <= filter.EndDate.day
    /\ filter.Limit >= 0 /\ filter.Limit <= 1000
    /\ filter.Offset >= 0

\* news.Service.ListArticles; storeFails is the outcome of the database calls.
ListArticles(coll, filter, storeFails) ==
    LET f == IF filter.Limit <= 0 THEN [filter EXCEPT !.Limit = 50] ELSE filter
    IN  IF ~validateFilter(f) THEN [err |-> "ErrInvalidFilter", articles |-> <<>>]
        ELSE IF storeFails THEN [err |-> "store error", articles |-> <<>>]
        ELSE [err |-> "", articles |-> List(coll, f)]

(***************************************************************************)
(* OpenAIService: query analysis.                                          *)
(***************************************************************************)
QueryTypeFinancial == "financial"
QueryTypeContracts == "contracts"
QueryTypeGeneral   == "general"

\* Mutant: the query type is taken from the model output when it names one.
parseAnalysisResponse_readsContent(content, originalQuestion) ==
    LET lowerContent == ToLower(originalQuestion)
        rtx == IF Contains(lowerContent, "rtx") \/ Contains(lowerContent, "raytheon")
               THEN <<RTX>> ELSE <<>>
        war == IF \/ Contains(lowerContent, "war department")
                  \/ Contains(lowerContent, "defense")
                  \/ Contains(lowerContent, "military")
               THEN <<WarDept>> ELSE <<>>
        qtype == IF Contains(content, "\"query_type\": \"contracts\"")
                 THEN QueryTypeContracts
                 ELSE IF Contains(content, "\"query_type\": \"financial\"")
                 THEN QueryTypeFinancial
                 ELSE IF \/ Contains(lowerContent, "quarter")
                         \/ Contains(lowerContent, "earnings")
                         \/ Contains(lowerContent, "revenue")
                         \/ Contains(lowerContent, "financial")
                 THEN QueryTypeFinancial
                 ELSE IF \/ Contains(lowerContent, "contract")
                         \/ Contains(lowerContent, "award")
                         \/ Contains(lowerContent, "deal")
                      THEN QueryTypeContracts
                      ELSE QueryTypeGeneral
        window == IF \/ Contains(lowerContent, "recent")
                     \/ Contains(lowerContent, "latest")
                     \/ Contains(lowerContent, "this quarter")
                  THEN [StartDate |-> Nil, EndDate |-> Nil, Period |-> "recent"]
                  ELSE Nil
    IN  [ QueryType    |-> qtype,
          CompanyNames |-> rtx \o war,
          Keywords     |-> <<>>,
          SearchTerms  |-> <<>>,
          TimeWindow   |-> window ]

\* Mutant: the contract keywords are looked for before the financial ones.
parseAnalysisResponse_contractsFirst(content, originalQuestion) ==
    LET lowerContent == ToLower(originalQuestion)
        rtx == IF Contains(lowerContent, "rtx") \/ Contains(lowerContent, "raytheon")
               THEN <<RTX>> ELSE <<>>
        war == IF \/ Contains(lowerContent, "war department")
                  \/ Contains(lowerContent, "defense")
                  \/ Contains(lowerContent, "military")
               THEN <<WarDept>> ELSE <<>>
        qtype == IF \/ Contains(lowerContent, "contract")
                    \/ Contains(lowerContent, "award")
                    \/ Contains(lowerContent, "deal")
                 THEN QueryTypeContracts
                 ELSE IF \/ Contains(lowerContent, "quarter")
                         \/ Contains(lowerContent, "earnings")
                         \/ Contains(lowerContent, "revenue")
                         \/ Contains(lowerContent, "financial")
                      THEN QueryTypeFinancial
                      ELSE QueryTypeGeneral
        window == IF \/ Contains(lowerContent, "recent")
                     \/ Contains(lowerContent, "latest")
                     \/ Contains(lowerContent, "this quarter")
                  THEN [StartDate |-> Nil, EndDate |-> Nil, Period |-> "recent"]
                  ELSE Nil
    IN  [ QueryType    |-> qtype,
          CompanyNames |-> rtx \o war,
          Keywords     |-> <<>>,
          SearchTerms  |-> <<>>,
          TimeWindow   |-> window ]

\* parseAnalysisResponse reads the model output `content` nowhere: the
\* analysis is computed from the original question.
parseAnalysisResponse(content, originalQuestion) ==
    LET lowerContent == ToLower(originalQuestion)
        rtx == IF Contains(lowerContent, "rtx") \/ Contains(lowerContent, "raytheon")
               THEN <<RTX>> ELSE <<>>
        war == IF \/ Contains(lowerContent, "war department")
                  \/ Contains(lowerContent, "defense")
                  \/ Contains(lowerContent, "military")
               THEN <<WarDept>> ELSE <<>>
        qtype == IF \/ Contains(lowerContent, "quarter")
                    \/ Contains(lowerContent, "earnings")
                    \/ Contains(lowerContent, "revenue")
                    \/ Contains(lowerContent, "financial")
                 THEN QueryTypeFinancial
                 ELSE IF \/ Contains(lowerContent, "contract")
                         \/ Contains(lowerContent, "award")
                         \/ Contains(lowerContent, "deal")
                      THEN QueryTypeContracts
                      ELSE QueryTypeGeneral
        window == IF \/ Contains(lowerContent, "recent")
                     \/ Contains(lowerContent, "latest")
                     \/ Contains(lowerContent, "this quarter")
                  THEN [StartDate |-> Nil, EndDate |-> Nil, Period |-> "recent"]
                  ELSE Nil
    IN  [ QueryType    |-> qtype,
          CompanyNames |-> rtx \o war,
          Keywords     |-> <<>>,
          SearchTerms  |-> <<>>,
          TimeWindow   |-> window ]

\* Outcomes of one chat-completion call: a transport error, a reply without
\* choices, or a reply whose first choice has the given content.
ModelOutcomes ==
    { [kind |-> "error"], [kind |-> "nochoices"],
      [kind |-> "ok", content |-> "model output"] }

\* What the model can answer the analysis prompt with: the JSON the prompt
\* asks for (lines 155-169), with different contents, or something else.
AnalysisContents ==
    { "{\"query_type\": \"contracts\", \"company_names\": [\"Lockheed Martin\"], \"keywords\": [\"missile\"], \"time_window\": \"this_year\", \"search_terms\": []}",
      "{\"query_type\": \"financial\", \"company_names\": [\"RTX\"], \"keywords\": [], \"time_window\": null, \"search_terms\": []}",
      "I am sorry, I cannot help with that.",
      "" }

\* Outcomes of the analysis call.
AnalysisOutcomes ==
    ModelOutcomes \cup {[kind |-> "ok", content |-> c] : c \in AnalysisContents}

\* Mutant: a failed call falls back to the heuristic analysis of the question.
AnalyzeQuery_heuristicFallback(question, outcome) ==
    IF outcome.kind = "ok"
    THEN [err |-> "", analysis |-> parseAnalysisResponse(outcome.content, question)]
    ELSE [err |-> "", analysis |-> parseAnalysisResponse("", question)]

\* AnalyzeQuery: [err, analysis].
AnalyzeQuery(question, outcome) ==
    IF outcome.kind = "error" THEN [err |-> "transport error", analysis |-> Nil]
    ELSE IF outcome.kind = "nochoices" THEN [err |-> "no response from OpenAI", analysis |-> Nil]
    ELSE [err |-> "", analysis |-> parseAnalysisResponse(outcome.content, question)]

(***************************************************************************)
(* OpenAIService: retrieval and ranking.                                   *)
(***************************************************************************)
RetrievalLimit == 20
RecentDays == 90
TopSources == 10
BoostStep == 2 * Tenth

boostedScore(article, an) ==
    LET title == ToLower(article.Title)
        fin == IF /\ an.QueryType = QueryTypeFinancial
                  /\ (Contains(title, "earnings") \/ Contains(title, "quarter")
                        \/ Contains(title, "revenue"))
               THEN BoostStep ELSE 0
        con == IF /\ an.QueryType = QueryTypeContracts
                  /\ (Contains(title, "contract") \/ Contains(title, "award"))
               THEN BoostStep ELSE 0
    IN  article.RelevanceScore + fin + con

toSourceReference(article, an) ==
    [ ArticleID      |-> article.ID,
      Title          |-> article.Title,
      Summary        |-> article.Summary,
      CompanyName    |-> IF Len(article.Companies) > 0 THEN article.Companies[1] ELSE "Unknown",
      PublishedDate  |-> article.PublishedDate,
      SourceURL      |-> article.SourceURL,
      RelevanceScore |-> boostedScore(article, an) ]

Swap(s, i, j) == [s EXCEPT ![i] = s[j], ![j] = s[i]]

\* The inner loop of the sort: for j := from; j < len; j++ { if s[i] < s[j] swap }.
RECURSIVE sortInner(_, _, _)
sortInner(s, i, j) ==
    IF j > Len(s) THEN s
    ELSE sortInner(IF s[i].RelevanceScore < s[j].RelevanceScore THEN Swap(s, i, j) ELSE s,
                   i, j + 1)

\* Mutant: one pass of the outer loop only, which brings the maximum to the
\* front and leaves the rest unsorted.
sortOuter_singlePass(s, i) ==
    IF i > Len(s) - 1 THEN s ELSE sortInner(s, i, i + 1)

\* The outer loop: for i := 0; i < len-1; i++.
RECURSIVE sortOuter(_, _)
sortOuter(s, i) ==
    IF i > Len(s) - 1 THEN s ELSE sortOuter(sortInner(s, i, i + 1), i + 1)

\* The conversion loop: for i, article := range articles.
RECURSIVE toSourceReferences(_, _)
toSourceReferences(articles, an) ==
    IF articles = <<>> THEN <<>>
    ELSE <<toSourceReference(Head(articles), an)>> \o toSourceReferences(Tail(articles), an)

rankArticlesByRelevance(articles, an) ==
    sortOuter(toSourceReferences(articles, an), 1)

\* The filter retrieveRelevantArticles builds before it sets filter.Company.
retrievalFilter(an) ==
    [ Company      |-> "",
      StartDate    |-> IF an.TimeWindow # Nil THEN an.TimeWindow.StartDate
                       ELSE [day |-> Now - RecentDays],
      EndDate      |-> IF an.TimeWindow # Nil THEN an.TimeWindow.EndDate ELSE Nil,
      MinRelevance |-> Nil,
      Limit        |-> RetrievalLimit,
      Offset       |-> 0 ]

\* The per-company loop: query i fails iff i is in `failing`; a failed query
\* is skipped.
RECURSIVE listPerCompany(_, _, _, _, _)
listPerCompany(coll, filter, companies, i, failing) ==
    IF i > Len(companies) THEN <<>>
    ELSE LET r == ListArticles(coll, [filter EXCEPT !.Company = companies[i]], i \in failing)
         IN  (IF r.err # "" THEN <<>> ELSE r.articles)
               \o listPerCompany(coll, filter, companies, i + 1, failing)

\* Mutant: the error of a query for one organization is returned instead of
\* being skipped.
retrieveRelevantArticles_failsOnScopedError(coll, an, companyContext, failing) ==
    LET companies == an.CompanyNames \o companyContext
        filter == retrievalFilter(an)
    IN  IF Len(companies) > 0
        THEN IF \E i \in 1..Len(companies) : i \in failing
             THEN [ err     |-> "store error",
                    sources |-> <<>>,
                    queries |-> [i \in 1..Len(companies) |-> [filter EXCEPT !.Company = companies[i]]] ]
             ELSE [ err     |-> "",
                    sources |-> Take(rankArticlesByRelevance(
                                       listPerCompany(coll, filter, companies, 1, failing), an),
                                     TopSources),
                    queries |-> [i \in 1..Len(companies) |-> [filter EXCEPT !.Company = companies[i]]] ]
        ELSE LET r == ListArticles(coll, filter, 1 \in failing)
             IN  IF r.err # ""
                 THEN [err |-> r.err, sources |-> <<>>, queries |-> <<filter>>]
                 ELSE [ err     |-> "",
                        sources |-> Take(rankArticlesByRelevance(r.articles, an), TopSources),
                        queries |-> <<filter>> ]

\* retrieveRelevantArticles: [err, sources, queries], queries being the
\* filters handed to ListArticles, in order.
retrieveRelevantArticles(coll, an, companyContext, failing) ==
    LET companies == an.CompanyNames \o companyContext
        filter == retrievalFilter(an)
    IN  IF Len(companies) > 0
        THEN [ err     |-> "",
               sources |-> Take(rankArticlesByRelevance(
                                  listPerCompany(coll, filter, companies, 1, failing), an),
                                TopSources),
               queries |-> [i \in 1..Len(companies) |-> [filter EXCEPT !.Company = companies[i]]] ]
        ELSE LET r == ListArticles(coll, filter, 1 \in failing)
             IN  IF r.err # ""
                 THEN [err |-> r.err, sources |-> <<>>, queries |-> <<filter>>]
                 ELSE [ err     |-> "",
                        sources |-> Take(rankArticlesByRelevance(r.articles, an), TopSources),
                        queries |-> <<filter>> ]

(***************************************************************************)
(* OpenAIService: the confidence gate and the eligibility check.           *)
(***************************************************************************)
MinSources == 3
LowRelevance == 6 * Tenth

relevanceOf(source) == source.RelevanceScore

\* Mean relevance; exact, the scores being multiples of Tenth.
avgRelevance(srcs) == SumOf(relevanceOf, srcs) \div Len(srcs)

hasLowConfidenceContext(srcs) ==
    IF Len(srcs) = 0 THEN TRUE ELSE avgRelevance(srcs) < LowRelevance

\* Mutant: the count threshold of the gate taken from the confidence bonus.
insufficientContext_minFive(srcs) == Len(srcs) < 5 \/ hasLowConfidenceContext(srcs)

\* The condition of "Step 3" of ProcessQuery.
insufficientContext(srcs) == Len(srcs) < MinSources \/ hasLowConfidenceContext(srcs)

defenseKeywords ==
    << "defense", "defence", "military", "aerospace", "aeronautics", "aviation",
       "aircraft", "fighter", "missile", "radar", "satellite", "contract",
       "pentagon", "air force", "navy", "army", "marines", "weapons",
       "jet", "helicopter", "drone", "uav", "ceo", "executive", "leadership",
       "financial", "earnings", "revenue", "stock", "market", "performance",
       "founder", "history", "established", "founded", "company", "corporation" >>

defenseCompanies ==
    << "rtx", "raytheon", "lockheed", "boeing", "northrop", "grumman",
       "war department", "defense department", "pentagon" >>

defenseCompanyNameParts ==
    << "raytheon", "rtx", "war department", "lockheed", "defense" >>

\* Mutant: "all" instead of "any" over the identified company names, which
\* holds of the empty list.
isDefenseAeronauticsQuestion_allNames(question, companyNames) ==
    LET lowerQuestion == ToLower(question)
    IN  \/ ContainsAny(lowerQuestion, defenseKeywords)
        \/ ContainsAny(lowerQuestion, defenseCompanies)
        \/ \A i \in 1..Len(companyNames) :
              ContainsAny(ToLower(companyNames[i]), defenseCompanyNameParts)

isDefenseAeronauticsQuestion(question, companyNames) ==
    LET lowerQuestion == ToLower(question)
    IN  \/ ContainsAny(lowerQuestion, defenseKeywords)
        \/ ContainsAny(lowerQuestion, defenseCompanies)
        \/ \E i \in 1..Len(companyNames) :
              ContainsAny(ToLower(companyNames[i]), defenseCompanyNameParts)

\* Mutant: no retrieved article at all is answered with the refusal.
decide_refuseWithoutSources(srcs, question, companyNames) ==
    IF insufficientContext(srcs)
    THEN IF Len(srcs) > 0 /\ isDefenseAeronauticsQuestion(question, companyNames)
         THEN "search" ELSE "refused"
    ELSE "generate"

\* The branch ProcessQuery takes after the retrieval: "generate" (step 4),
\* "search" (the Google search of step 3) or "refused".
decide(srcs, question, companyNames) ==
    IF insufficientContext(srcs)
    THEN IF isDefenseAeronauticsQuestion(question, companyNames) THEN "search" ELSE "refused"
    ELSE "generate"

(***************************************************************************)
(* GoogleSearchService.                                                    *)
(***************************************************************************)
MaxFiltered == 5

defenseTerms ==
    << "defense", "aerospace", "military", "rtx", "raytheon", "lockheed",
       "boeing", "northrop", "grumman", "war department", "pentagon" >>

searchKeywords ==
    << "defense", "aerospace", "military", "rtx", "raytheon", "lockheed",
       "boeing", "northrop", "grumman", "war department", "pentagon",
       "contract", "missile", "aircraft", "satellite", "cybersecurity" >>

enhanceQueryForDefense(query) ==
    IF ContainsAny(ToLower(query), defenseTerms) THEN query
    ELSE query \o " defense aerospace industry"

isDefenseRelated(result, keywords) ==
    ContainsAny(ToLower(result.Title \o " " \o result.Snippet), keywords)

\* The loop of filterDefenseResults over results[i..], `filtered` so far.
RECURSIVE filterLoop(_, _, _)
filterLoop(results, i, filtered) ==
    IF i > Len(results) THEN filtered
    ELSE LET f == IF isDefenseRelated(results[i], searchKeywords)
                  THEN Append(filtered, results[i]) ELSE filtered
         IN  IF Len(f) >= MaxFiltered THEN f ELSE filterLoop(results, i + 1, f)

filterDefenseResults(results) == filterLoop(results, 1, <<>>)

\* What the Google API can answer with.
GoogleItems ==
    { [Title |-> "RTX history", Link |-> "https://www.rtx.com/history",
       Snippet |-> "Raytheon was founded in 1922"],
      [Title |-> "Best pizza recipes", Link |-> "https://food.example/pizza",
       Snippet |-> "Dough and sauce"] }

RECURSIVE SeqsUpTo(_, _)
SeqsUpTo(S, n) ==
    IF n = 0 THEN {<<>>}
    ELSE LET shorter == SeqsUpTo(S, n - 1)
         IN  shorter \cup {Append(s, x) : s \in {t \in shorter : Len(t) = n - 1}, x \in S}

\* Outcomes of the HTTP exchange: a transport error, a status other than
\* 200, an undecodable body, or a decoded list of items.
SearchOutcomes ==
    { [kind |-> "transport"], [kind |-> "status"], [kind |-> "decode"] }
      \cup { [kind |-> "ok", items |-> items] : items \in SeqsUpTo(GoogleItems, MaxItems) }

\* SearchDefenseAndAerospace: [err, results, query].
SearchDefenseAndAerospace(query, outcome) ==
    LET enhancedQuery == enhanceQueryForDefense(query)
    IN  IF outcome.kind = "transport"
        THEN [err |-> "failed to perform search request", results |-> <<>>, query |-> enhancedQuery]
        ELSE IF outcome.kind = "status"
        THEN [err |-> "search API returned status", results |-> <<>>, query |-> enhancedQuery]
        ELSE IF outcome.kind = "decode"
        THEN [err |-> "failed to decode search response", results |-> <<>>, query |-> enhancedQuery]
        ELSE [err |-> "", results |-> filterDefenseResults(outcome.items), query |-> enhancedQuery]

convertGoogleResultsToWebSources(results) ==
    [i \in 1..Len(results) |->
        [ Title |-> results[i].Title, URL |-> results[i].Link, Snippet |-> results[i].Snippet,
          Source |-> "", PublishedAt |-> Nil, Relevance |-> 0 ]]

(***************************************************************************)
(* OpenAIService: generation and the responses.                            *)
(***************************************************************************)
\* Mutant: a failed generation is replaced by a canned answer.
generate_cannedAnswer(outcome) ==
    IF outcome.kind = "ok" THEN [err |-> "", text |-> outcome.content]
    ELSE [err |-> "", text |-> "I could not find enough information to answer."]

\* generateResponse, generateDirectResponse and generateResponseWithWebSearch
\* differ in their prompts only: [err, text].
generate(outcome) ==
    IF outcome.kind = "error" THEN [err |-> "transport error", text |-> ""]
    ELSE IF outcome.kind = "nochoices" THEN [err |-> "no response from OpenAI", text |-> ""]
    ELSE [err |-> "", text |-> outcome.content]

webRelevanceOf(source) == source.Relevance

\* Mutant: the final clamp to 1.0 is missing.
calculateConfidence_noClamp(srcs, webSources, an) ==
    IF Len(srcs) = 0 /\ Len(webSources) = 0 THEN 0
    ELSE (5 * Tenth)
           + (IF Len(srcs) >= 5 THEN 3 * Tenth
              ELSE IF Len(srcs) >= 3 THEN 2 * Tenth
              ELSE IF Len(srcs) >= 1 THEN Tenth ELSE 0)
           + (IF Len(webSources) >= 3 THEN (15 * Tenth) \div 10
              ELSE IF Len(webSources) >= 1 THEN Tenth ELSE 0)
           + (IF Len(srcs) > 0 THEN (avgRelevance(srcs) * 2) \div 10 ELSE 0)
           + (IF Len(webSources) > 0
              THEN (SumOf(webRelevanceOf, webSources) \div Len(webSources)) \div 10 ELSE 0)

calculateConfidence(srcs, webSources, an) ==
    IF Len(srcs) = 0 /\ Len(webSources) = 0 THEN 0
    ELSE LET base  == 5 * Tenth
             local == IF Len(srcs) >= 5 THEN 3 * Tenth
                      ELSE IF Len(srcs) >= 3 THEN 2 * Tenth
                      ELSE IF Len(srcs) >= 1 THEN Tenth
                      ELSE 0
             web   == IF Len(webSources) >= 3 THEN (15 * Tenth) \div 10
                      ELSE IF Len(webSources) >= 1 THEN Tenth
                      ELSE 0
             localQ == IF Len(srcs) > 0 THEN (avgRelevance(srcs) * 2) \div 10 ELSE 0
             webQ   == IF Len(webSources) > 0
                       THEN (SumOf(webRelevanceOf, webSources) \div Len(webSources)) \div 10
                       ELSE 0
             confidence == base + local + web + localQ + webQ
         IN  IF confidence > One THEN One ELSE confidence

ErrInvalidQuery == "invalid query: question cannot be empty"
ErrAIService    == "AI service error"

RefusalAnswer ==
    "I can only provide information about defense and aeronautics companies and topics. Please ask about RTX, US War Department, or related defense/aerospace subjects."

DirectConfidence == 7 * Tenth
WebConfidence == 8 * Tenth

\* Mutant: the fallback response copied from the search response.
directResponse_asWebResponse(answer, an) ==
    [ Answer |-> answer, Sources |-> <<>>, WebSources |-> <<>>, UsedWebSearch |-> TRUE,
      Confidence |-> 8 * Tenth, CompaniesReferenced |-> an.CompanyNames ]

\* The QueryResponse of the fallback after a failed search (lines 78-86).
directResponse(answer, an) ==
    [ Answer |-> answer, Sources |-> <<>>, WebSources |-> <<>>, UsedWebSearch |-> FALSE,
      Confidence |-> DirectConfidence, CompaniesReferenced |-> an.CompanyNames ]

\* Mutant: the response built from the search results does not set the
\* web-search flag.
webResponse_withoutFlag(answer, webSources, an) ==
    [ Answer |-> answer, Sources |-> <<>>, WebSources |-> webSources, UsedWebSearch |-> FALSE,
      Confidence |-> WebConfidence, CompaniesReferenced |-> an.CompanyNames ]

\* The QueryResponse built from the search results (lines 97-105).
webResponse(answer, webSources, an) ==
    [ Answer |-> answer, Sources |-> <<>>, WebSources |-> webSources, UsedWebSearch |-> TRUE,
      Confidence |-> WebConfidence, CompaniesReferenced |-> an.CompanyNames ]

\* Mutant: the refusal keeps the base confidence.
refusedResponse_baseConfidence(an) ==
    [ Answer |-> RefusalAnswer, Sources |-> <<>>, WebSources |-> <<>>, UsedWebSearch |-> FALSE,
      Confidence |-> 5 * Tenth, CompaniesReferenced |-> an.CompanyNames ]

\* The QueryResponse for a question that is not in scope (lines 115-123).
refusedResponse(an) ==
    [ Answer |-> RefusalAnswer, Sources |-> <<>>, WebSources |-> <<>>, UsedWebSearch |-> FALSE,
      Confidence |-> 0, CompaniesReferenced |-> an.CompanyNames ]

\* The QueryResponse built from the database context (lines 135-143).
localResponse(answer, srcs, an) ==
    [ Answer |-> answer, Sources |-> srcs, WebSources |-> <<>>, UsedWebSearch |-> FALSE,
      Confidence |-> calculateConfidence(srcs, <<>>, an), CompaniesReferenced |-> an.CompanyNames ]

\* fmt.Errorf("%w: ...", sentinel) and errors.Is.
wrapError(sentinel, msg) == sentinel \o ": " \o msg
isError(e, sentinel) == HasPrefix(e, sentinel)

(***************************************************************************)
(* AIHandler.QueryHandler.                                                 *)
(***************************************************************************)
MaxQuestionLen == 1000

\* The validation of QueryHandler: the message of the 400 answer, "" if the
\* request is passed on to ProcessQuery.
handlerValidation(validJSON, question) ==
    IF ~validJSON THEN "invalid JSON format"
    ELSE IF TrimSpace(question) = "" THEN "question is required"
    ELSE IF ByteLen(question) > MaxQuestionLen THEN "question too long (max 1000 characters)"
    ELSE ""

\* The status QueryHandler writes for the result of ProcessQuery: the error
\* is compared with == against the sentinels, which a wrapped error never equals.
statusFor(e) ==
    IF e = "" THEN 200
    ELSE IF e = ErrInvalidQuery THEN 400
    ELSE IF e = "no results" THEN 404
    ELSE 500

(***************************************************************************)
(* MemoryCache: the summary cache.  Every method body runs under the       *)
(* mutex, so each locked section is one atomic step; Get gives up the read *)
(* lock before it takes the write lock to evict an expired entry, which    *)
(* makes the eviction a step of its own.  Times are hours.                 *)
(***************************************************************************)
CacheTTL == 24
TickStep == 12

\* The article ids asked for: two stored articles and one that is not stored.
RequestIDs == {"r1", "r2", "r9"}

EmptyCache == [k \in {} |-> Nil]

\* time.Time.After
After(t, u) == t > u

\* Mutant: Get returns the entry without looking at its expiry.
Get_noExpiryCheck(m, articleID, now) ==
    IF articleID \notin DOMAIN m THEN [kind |-> "absent"]
    ELSE [kind |-> "hit", cached |-> m[articleID]]

\* MemoryCache.Get, the section under the read lock: the entry is absent,
\* expired (Get goes on to evict it) or returned.
Get(m, articleID, now) ==
    IF articleID \notin DOMAIN m THEN [kind |-> "absent"]
    ELSE IF After(now, m[articleID].ExpiresAt) THEN [kind |-> "expired"]
    ELSE [kind |-> "hit", cached |-> m[articleID]]

\* Mutant: the entry is stored with its expiry at the time of the call.
Set_noTTL(m, articleID, summary, ttl, now) ==
    [k \in DOMAIN m \cup {articleID} |->
        IF k = articleID
        THEN [ ArticleID |-> summary.ArticleID, OriginalTitle |-> summary.OriginalTitle,
               Summary |-> summary.Summary, SourceURL |-> summary.SourceURL,
               CachedAt |-> now, ExpiresAt |-> now ]
        ELSE m[k]]

\* MemoryCache.Set: the map after the call.
Set(m, articleID, summary, ttl, now) ==
    [k \in DOMAIN m \cup {articleID} |->
        IF k = articleID
        THEN [ ArticleID |-> summary.ArticleID, OriginalTitle |-> summary.OriginalTitle,
               Summary |-> summary.Summary, SourceURL |-> summary.SourceURL,
               CachedAt |-> now, ExpiresAt |-> now + ttl ]
        ELSE m[k]]

\* delete(m.cache, articleID), in Get's eviction and in MemoryCache.Delete.
Delete(m, articleID) == [k \in DOMAIN m \ {articleID} |-> m[k]]

\* MemoryCache.Clear
Clear(m) == EmptyCache

\* Mutant: the sweep compares the wrong way round and keeps what has expired.
cleanupExpired_keepsExpired(m, now) ==
    [k \in {j \in DOMAIN m : After(now, m[j].ExpiresAt)} |-> m[k]]

\* MemoryCache.cleanupExpired
cleanupExpired(m, now) ==
    [k \in {j \in DOMAIN m : ~After(now, m[j].ExpiresAt)} |-> m[k]]

\* news.Service.GetArticleByID over NewsRepository.GetByID.
GetArticleByID(coll, id) ==
    IF \E a \in coll : a.ID = id
    THEN [err |-> "", article |-> CHOOSE a \in coll : a.ID = id]
    ELSE [err |-> "article not found", article |-> Nil]

\* Outcomes of the n-th summary generation for an article: the model
\* answers differently from one call to the next.
SummaryOutcomes(articleID, n) ==
    { [kind |-> "error"], [kind |-> "nochoices"],
      [kind |-> "ok", content |-> "summary " \o ToString(n) \o " of " \o articleID] }

\* Mutant: the title of the article is served as its summary.
cachedResponse_titleAsSummary(cached) ==
    [ ArticleID |-> cached.ArticleID, OriginalTitle |-> cached.OriginalTitle,
      Summary |-> cached.OriginalTitle, SourceURL |-> cached.SourceURL,
      GeneratedAt |-> cached.CachedAt ]

\* The ArticleSummaryResponse built from a cache hit (lines 676-683) ...
cachedResponse(cached) ==
    [ ArticleID |-> cached.ArticleID, OriginalTitle |-> cached.OriginalTitle,
      Summary |-> cached.Summary, SourceURL |-> cached.SourceURL,
      GeneratedAt |-> cached.CachedAt ]

\* Mutant: the response is built without the article id.
generatedResponse_withoutID(articleID, article, summary, now) ==
    [ ArticleID |-> "", OriginalTitle |-> article.Title,
      Summary |-> summary, SourceURL |-> article.SourceURL,
      GeneratedAt |-> now ]

\* ... and from a generated summary (lines 757-764).
generatedResponse(articleID, article, summary, now) ==
    [ ArticleID |-> articleID, OriginalTitle |-> article.Title,
      Summary |-> summary, SourceURL |-> article.SourceURL,
      GeneratedAt |-> now ]

\* sync.RWMutex with nobody holding it.
Unlocked == [readers |-> 0, writer |-> FALSE]

\* Mutant: Get deletes the expired entry without giving up the read lock for
\* the write lock.
Program_evictUnderReadLock(method, branch) ==
    IF method = "Get"
    THEN IF branch = "expired"
         THEN <<"RLock", "Read", "Write", "RUnlock">>
         ELSE <<"RLock", "Read", "RUnlock">>
    ELSE IF method = "GetCacheStats"
    THEN <<"RLock", "Read", "RUnlock">>
    ELSE <<"Lock", "Write", "Unlock">>

\* What each method of MemoryCache does to the mutex and to the map, in
\* program order, the deferred unlock last.  Get finds out at its read which
\* way it goes: it returns, or it evicts the expired entry (lines 587-595).
\* Set, Delete, Clear and cleanupExpired lock, write and unlock.
Program(method, branch) ==
    IF method = "Get"
    THEN IF branch = "expired"
         THEN <<"RLock", "Read", "RUnlock", "Lock", "Write", "Unlock", "RLock", "RUnlock">>
         ELSE <<"RLock", "Read", "RUnlock">>
    ELSE IF method = "GetCacheStats"
    THEN <<"RLock", "Read", "RUnlock">>
    ELSE <<"Lock", "Write", "Unlock">>

Methods == {"Get", "Set", "Delete", "Clear", "cleanupExpired", "GetCacheStats"}

\* The key the methods are called with.
LockIDs == {"r1"}

\* A method in progress that has executed pc_ of its instructions.
Op(method, articleID, branch, pc_) ==
    [method |-> method, articleID |-> articleID, branch |-> branch, pc |-> pc_]

\* The instruction the method executes next.
NextInstruction(op) == Program(op.method, op.branch)[op.pc + 1]

\* The map after the write of the method.
Written(m, op, coll, now) ==
    IF op.method = "Set"
    THEN Set(m, op.articleID,
             generatedResponse(op.articleID, GetArticleByID(coll, op.articleID).article,
                               "summary of " \o op.articleID, now),
             CacheTTL, now)
    ELSE IF op.method = "Clear" THEN Clear(m)
    ELSE IF op.method = "cleanupExpired" THEN cleanupExpired(m, now)
    ELSE Delete(m, op.articleID)

\* A call in flight, and the bag with or without it.
Call(pc_, articleID) == [pc |-> pc_, articleID |-> articleID]

Enter(calls_, call) == calls_ (+) SetToBag({call})

Leave(calls_, call) == calls_ (-) SetToBag({call})

\* What SummarizeArticle returns: (response, nil) or (nil, err); hit records
\* that the response was built from the cache (the "Cache hit" log line).
Returned(articleID, resp, e, hit) ==
    [articleID |-> articleID, response |-> resp, err |-> e, hit |-> hit]

\* disturbed: the key was deleted, cleared or found expired by a call.
NoStats == [started |-> 0, invoked |-> 0, generated |-> {}, disturbed |-> FALSE]

RECURSIVE SumOver(_, _)
SumOver(f, S) ==
    IF S = {} THEN 0
    ELSE LET x == CHOOSE y \in S : TRUE IN f[x] + SumOver(f, S \ {x})

CallsStarted == SumOver([id \in RequestIDs |-> stats[id].started], RequestIDs)

(***************************************************************************)
(* Inputs.                                                                 *)
(***************************************************************************)
Questions ==
    { "How did RTX perform this quarter?",
      "Who was the founder of RTX?",
      "Latest defense contract award for Raytheon",
      "Who founded Apple Inc?",
      "Best pizza recipes",
      "",
      "   " }

\* Questions at the length limit: 1000 bytes, 1001 bytes, and 1000
\* characters of which one takes two bytes.
BoundaryQuestions ==
    { "RTX earnings " \o Repeat("a", MaxQuestionLen - 13),
      "RTX earnings " \o Repeat("a", MaxQuestionLen - 12),
      "RTX earnings " \o Repeat("a", MaxQuestionLen - 14) \o "é",
      Repeat(" ", MaxQuestionLen + 1) }

\* The aliases parseAnalysisResponse looks for, with the name it appends
\* for each (lines 317-322), and the keywords of the two query types it
\* tells apart (lines 325-329).
OrganizationAliases ==
    { [alias |-> "rtx", name |-> RTX],
      [alias |-> "raytheon", name |-> RTX],
      [alias |-> "war department", name |-> WarDept],
      [alias |-> "defense", name |-> WarDept],
      [alias |-> "military", name |-> WarDept] }

FinancialKeywords == {"quarter", "earnings", "revenue", "financial"}

ContractKeywords == {"contract", "award", "deal"}

\* A word written in upper case ...
UpperRune(c) ==
    IF \E i \in 1..Len(LowerLetters) : SubSeq(LowerLetters, i, i) = c
    THEN LET i == CHOOSE k \in 1..Len(LowerLetters) : SubSeq(LowerLetters, k, k) = c
         IN  SubSeq(UpperLetters, i, i)
    ELSE c

RECURSIVE ToUpper(_)
ToUpper(s) ==
    IF Len(s) = 0 THEN ""
    ELSE UpperRune(SubSeq(s, 1, 1)) \o ToUpper(SubSeq(s, 2, Len(s)))

\* ... and with a capital first letter.
Capitalize(s) == UpperRune(SubSeq(s, 1, 1)) \o SubSeq(s, 2, Len(s))

CaseVariants(w) == {w, ToUpper(w), Capitalize(w)}

\* Questions that name an organization by an alias and carry a financial
\* keyword, in three letter cases each, alone or with a contract keyword
\* before or after them.
AnalysisQuestions ==
    LET aliases == UNION {CaseVariants(a.alias) : a \in OrganizationAliases}
        financial == UNION {CaseVariants(k) : k \in FinancialKeywords}
        around == {<<"", "">>} \cup {<<c \o " for ", "">> : c \in ContractKeywords}
                               \cup {<<"", " and " \o ToUpper(c)>> : c \in ContractKeywords}
    IN  { x[1] \o a \o " " \o k \o x[2] : a \in aliases, k \in financial, x \in around }

Hints == SeqsUpTo(TrackedCompanies, MaxHints)

(***************************************************************************)
(* The state machine.                                                      *)
(***************************************************************************)
Init ==
    /\ collection = {}
    /\ pc = "idle"
    /\ req = Nil
    /\ analysis = Nil
    /\ sources = <<>>
    /\ searchResults = <<>>
    /\ calls = <<>>
    /\ response = Nil
    /\ err = ""
    /\ strategy = ""
    /\ status = 0
    /\ cache = EmptyCache
    /\ clock = 0
    /\ summarize = EmptyBag
    /\ returned = Nil
    /\ lastSet = [id \in RequestIDs |-> Nil]
    /\ stats = [id \in RequestIDs |-> NoStats]
    /\ shutdownRequested = FALSE
    /\ mu = Unlocked
    /\ ops = EmptyBag

\* ProcessQuery returns (resp, e) and QueryHandler writes the answer.
Return(resp, e, strat) ==
    /\ response' = resp
    /\ err' = e
    /\ strategy' = strat
    /\ status' = statusFor(e)
    /\ pc' = "done"

\* ProcessorService.ProcessCompanyFeed: the first n items of the company's
\* feed are fetched, converted and created; duplicates are skipped.  A
\* request reads the collection in one step (StepRetrieve) only, so the
\* ingestion runs are taken before the request arrives.
ProcessCompanyFeed(companyName) ==
    /\ pc = "idle"
    /\ \E n \in 1..Len(Feed(companyName)) :
          collection' = CreateAll(collection, SubSeq(Feed(companyName), 1, n), companyName)
    /\ UNCHANGED <<pc, req, analysis, sources, searchResults, calls,
                   response, err, strategy, status>>
    /\ UNCHANGED cacheVars
    /\ UNCHANGED lockVars

\* QueryHandler up to the first external call of ProcessQuery.
QueryHandler(validJSON, question, companyContext) ==
    /\ pc = "idle"
    /\ req' = IF validJSON THEN [Question |-> question, CompanyContext |-> companyContext]
               ELSE [Question |-> "", CompanyContext |-> <<>>]
    /\ analysis' = Nil
    /\ sources' = <<>>
    /\ searchResults' = <<>>
    /\ calls' = <<>>
    /\ IF handlerValidation(validJSON, question) # ""
       THEN /\ response' = Nil
            /\ err' = ""
            /\ strategy' = ""
            /\ status' = 400
            /\ pc' = "done"
       ELSE IF TrimSpace(question) = ""
       THEN Return(Nil, wrapError(ErrInvalidQuery, "question cannot be empty"), "")
       ELSE /\ response' = Nil
            /\ err' = ""
            /\ strategy' = ""
            /\ status' = 0
            /\ pc' = "analyze"
    /\ UNCHANGED collection
    /\ UNCHANGED cacheVars
    /\ UNCHANGED lockVars

\* Step 1 of ProcessQuery.
StepAnalyze ==
    /\ pc = "analyze"
    /\ \E outcome \in AnalysisOutcomes :
          \E r \in {AnalyzeQuery(req.Question, outcome)} :
              /\ calls' = Append(calls, [svc |-> "openai", op |-> "analyze",
                                         failed |-> outcome.kind # "ok"])
              /\ IF r.err # ""
                 THEN /\ Return(Nil, wrapError(ErrAIService, "failed to analyze query"), "")
                      /\ UNCHANGED analysis
                 ELSE /\ analysis' = r.analysis
                      /\ pc' = "retrieve"
                      /\ UNCHANGED <<response, err, strategy, status>>
    /\ UNCHANGED <<collection, req, sources, searchResults>>
    /\ UNCHANGED cacheVars
    /\ UNCHANGED lockVars

\* Step 2 of ProcessQuery and the decision of step 3.
StepRetrieve ==
    /\ pc = "retrieve"
    /\ LET companies == analysis.CompanyNames \o req.CompanyContext
           nq == IF Len(companies) > 0 THEN Len(companies) ELSE 1
       IN  \E failing \in SUBSET (1..nq) :
             \E r \in {retrieveRelevantArticles(collection, analysis, req.CompanyContext, failing)} :
                 /\ calls' = calls \o [i \in 1..Len(r.queries) |->
                                        [svc |-> "news", op |-> "ListArticles",
                                         filter |-> r.queries[i], failed |-> i \in failing]]
                 /\ IF r.err # ""
                    THEN /\ Return(Nil, wrapError(ErrAIService, "failed to retrieve articles"), "")
                         /\ UNCHANGED sources
                    ELSE /\ sources' = r.sources
                         /\ \E branch \in {decide(r.sources, req.Question, analysis.CompanyNames)} :
                                IF branch = "refused"
                                THEN Return(refusedResponse(analysis), "", "refused")
                                ELSE /\ pc' = branch
                                     /\ UNCHANGED <<response, err, strategy, status>>
    /\ UNCHANGED <<collection, req, analysis, searchResults>>
    /\ UNCHANGED cacheVars
    /\ UNCHANGED lockVars

\* Mutant: a failed search is tried again instead of falling back.
StepSearch_retries ==
    /\ pc = "search"
    /\ Len(calls) < 6
    /\ \E outcome \in SearchOutcomes :
          \E r \in {SearchDefenseAndAerospace(req.Question, outcome)} :
              /\ calls' = Append(calls, [svc |-> "google", op |-> "search", query |-> r.query,
                                         failed |-> outcome.kind # "ok"])
              /\ IF r.err # ""
                 THEN /\ pc' = "search"
                      /\ UNCHANGED searchResults
                 ELSE /\ pc' = "websearch"
                      /\ searchResults' = r.results
    /\ UNCHANGED <<collection, req, analysis, sources, response, err, strategy, status>>
    /\ UNCHANGED cacheVars
    /\ UNCHANGED lockVars

\* The Google custom search of step 3.
StepSearch ==
    /\ pc = "search"
    /\ \E outcome \in SearchOutcomes :
          \E r \in {SearchDefenseAndAerospace(req.Question, outcome)} :
              /\ calls' = Append(calls, [svc |-> "google", op |-> "search", query |-> r.query,
                                         failed |-> outcome.kind # "ok"])
              /\ IF r.err # ""
                 THEN /\ pc' = "direct"
                      /\ UNCHANGED searchResults
                 ELSE /\ pc' = "websearch"
                      /\ searchResults' = r.results
    /\ UNCHANGED <<collection, req, analysis, sources, response, err, strategy, status>>
    /\ UNCHANGED cacheVars
    /\ UNCHANGED lockVars

\* The fallback to the direct OpenAI response (lines 72-86).
StepDirectResponse ==
    /\ pc = "direct"
    /\ \E outcome \in ModelOutcomes :
          LET g == generate(outcome)
          IN  /\ calls' = Append(calls, [svc |-> "openai", op |-> "generateDirectResponse",
                                         failed |-> outcome.kind # "ok"])
              /\ IF g.err # ""
                 THEN Return(Nil, wrapError(ErrAIService, "failed to generate response"), "")
                 ELSE Return(directResponse(g.text, analysis), "", "direct-knowledge")
    /\ UNCHANGED <<collection, req, analysis, sources, searchResults>>
    /\ UNCHANGED cacheVars
    /\ UNCHANGED lockVars

\* The response generated from the search results (lines 90-112).
StepWebSearchResponse ==
    /\ pc = "websearch"
    /\ \E outcome \in ModelOutcomes :
          LET webSources == convertGoogleResultsToWebSources(searchResults)
              g == generate(outcome)
          IN  /\ calls' = Append(calls, [svc |-> "openai", op |-> "generateResponseWithWebSearch",
                                         failed |-> outcome.kind # "ok"])
              /\ IF g.err # ""
                 THEN Return(Nil, wrapError(ErrAIService, "failed to generate search-based response"), "")
                 ELSE Return(webResponse(g.text, webSources, analysis), "", "web-augmented")
    /\ UNCHANGED <<collection, req, analysis, sources, searchResults>>
    /\ UNCHANGED cacheVars
    /\ UNCHANGED lockVars

\* Steps 4 and 5 of ProcessQuery.
StepGenerateResponse ==
    /\ pc = "generate"
    /\ \E outcome \in ModelOutcomes :
          LET g == generate(outcome)
          IN  /\ calls' = Append(calls, [svc |-> "openai", op |-> "generateResponse",
                                         failed |-> outcome.kind # "ok"])
              /\ IF g.err # ""
                 THEN Return(Nil, wrapError(ErrAIService, "failed to generate response"), "")
                 ELSE Return(localResponse(g.text, sources, analysis), "", "local-evidence")
    /\ UNCHANGED <<collection, req, analysis, sources, searchResults>>
    /\ UNCHANGED cacheVars
    /\ UNCHANGED lockVars

Pipeline ==
    \/ StepAnalyze
    \/ StepRetrieve
    \/ StepSearch
    \/ StepDirectResponse
    \/ StepWebSearchResponse
    \/ StepGenerateResponse

Ingest == \E c \in TrackedCompanies : ProcessCompanyFeed(c)

Receive(Q) ==
    \E validJSON \in BOOLEAN, question \in Q, companyContext \in Hints :
        QueryHandler(validJSON, question, companyContext)

Next ==
    \/ Ingest
    \/ Receive(Questions)
    \/ Pipeline

Spec == Init /\ [][Next]_vars

\* The same machine fed with the questions at the length limit.
NextBoundary ==
    \/ Ingest
    \/ Receive(BoundaryQuestions)
    \/ Pipeline

SpecBoundary == Init /\ [][NextBoundary]_vars

(***************************************************************************)
(* SummarizeArticle, the cache operations and the sweep.                   *)
(***************************************************************************)
\* The state right after the news feed was ingested for the first time.
InitCache ==
    /\ collection = CreateAll({}, SubSeq(Feed(RTX), 1, 2), RTX)
    /\ pc = "idle"
    /\ req = Nil
    /\ analysis = Nil
    /\ sources = <<>>
    /\ searchResults = <<>>
    /\ calls = <<>>
    /\ response = Nil
    /\ err = ""
    /\ strategy = ""
    /\ status = 0
    /\ cache = EmptyCache
    /\ clock = 0
    /\ summarize = EmptyBag
    /\ returned = Nil
    /\ lastSet = [id \in RequestIDs |-> Nil]
    /\ stats = [id \in RequestIDs |-> NoStats]
    /\ shutdownRequested = FALSE
    /\ mu = Unlocked
    /\ ops = EmptyBag

\* SummarizeArticle up to the return of the read-locked section of Get
\* (lines 663-688): a hit is answered at once, an absent entry is a miss,
\* an expired one goes on to the eviction.
SummarizeArticle(articleID) ==
    /\ BagCardinality(summarize) < MaxCallers
    /\ ~shutdownRequested
    /\ CallsStarted < MaxCalls
    /\ \E g \in {Get(cache, articleID, clock)} :
          /\ IF g.kind = "hit"
             THEN /\ returned' = Returned(articleID, cachedResponse(g.cached), "", TRUE)
                  /\ UNCHANGED summarize
             ELSE /\ summarize' = Enter(summarize,
                         Call(IF g.kind = "expired" THEN "evict" ELSE "miss", articleID))
                  /\ UNCHANGED returned
          /\ stats' = [stats EXCEPT ![articleID].started = @ + 1,
                                    ![articleID].disturbed = @ \/ g.kind = "expired"]
    /\ UNCHANGED <<cache, clock, lastSet, shutdownRequested>>
    /\ UNCHANGED collection
    /\ UNCHANGED queryVars
    /\ UNCHANGED lockVars

\* Get, the eviction of the expired entry under the write lock, and its
\* return of a miss.
GetEvict(articleID) ==
    /\ BagIn(Call("evict", articleID), summarize)
    /\ cache' = Delete(cache, articleID)
    /\ lastSet' = [lastSet EXCEPT ![articleID] = Nil]
    /\ summarize' = Enter(Leave(summarize, Call("evict", articleID)), Call("miss", articleID))
    /\ UNCHANGED <<clock, returned, stats, shutdownRequested>>
    /\ UNCHANGED collection
    /\ UNCHANGED queryVars
    /\ UNCHANGED lockVars

\* After a miss (lines 690-784): the article lookup, the chat completion
\* and the Set with the 24-hour TTL.  The lookup and the completion touch
\* nothing the other callers share, so they are taken in one step with the
\* Set, which is the only access to the cache.
GenerateAndCache(articleID) ==
    /\ BagIn(Call("miss", articleID), summarize)
    /\ summarize' = Leave(summarize, Call("miss", articleID))
    /\ \E r \in {GetArticleByID(collection, articleID)} :
          IF r.err # ""
          THEN /\ returned' = Returned(articleID, Nil, "failed to retrieve article: " \o r.err, FALSE)
               /\ UNCHANGED <<cache, lastSet, stats>>
          ELSE \E outcome \in SummaryOutcomes(articleID, stats[articleID].invoked + 1) :
                 IF outcome.kind # "ok"
                 THEN /\ returned' = Returned(articleID, Nil,
                              IF outcome.kind = "error"
                              THEN "failed to generate summary: transport error"
                              ELSE "no response from OpenAI", FALSE)
                      /\ stats' = [stats EXCEPT ![articleID].invoked = @ + 1]
                      /\ UNCHANGED <<cache, lastSet>>
                 ELSE \E resp \in {generatedResponse(articleID, r.article, outcome.content, clock)} :
                      /\ cache' = Set(cache, articleID, resp, CacheTTL, clock)
                      /\ lastSet' = [lastSet EXCEPT ![articleID] =
                                        [summary |-> resp.Summary, at |-> clock, ttl |-> CacheTTL]]
                      /\ returned' = Returned(articleID, resp, "", FALSE)
                      /\ stats' = [stats EXCEPT ![articleID].invoked = @ + 1,
                                                ![articleID].generated = @ \cup {outcome.content}]
    /\ UNCHANGED <<clock, shutdownRequested>>
    /\ UNCHANGED collection
    /\ UNCHANGED queryVars
    /\ UNCHANGED lockVars

\* MemoryCache.Delete, called by a client of the SummaryCache interface.
CacheDelete(articleID) ==
    /\ articleID \in DOMAIN cache
    /\ cache' = Delete(cache, articleID)
    /\ lastSet' = [lastSet EXCEPT ![articleID] = Nil]
    /\ stats' = [stats EXCEPT ![articleID].disturbed = TRUE]
    /\ UNCHANGED <<clock, summarize, returned, shutdownRequested>>
    /\ UNCHANGED collection
    /\ UNCHANGED queryVars
    /\ UNCHANGED lockVars

\* MemoryCache.Clear, called by a client of the SummaryCache interface.
CacheClear ==
    /\ cache # EmptyCache
    /\ cache' = Clear(cache)
    /\ lastSet' = [id \in RequestIDs |-> Nil]
    /\ stats' = [id \in RequestIDs |->
                    [stats[id] EXCEPT !.disturbed = @ \/ id \in DOMAIN cache]]
    /\ UNCHANGED <<clock, summarize, returned, shutdownRequested>>
    /\ UNCHANGED collection
    /\ UNCHANGED queryVars
    /\ UNCHANGED lockVars

\* Time passes.
Tick ==
    /\ clock < MaxTicks * TickStep
    /\ clock' = clock + TickStep
    /\ UNCHANGED <<cache, summarize, returned, lastSet, stats, shutdownRequested>>
    /\ UNCHANGED collection
    /\ UNCHANGED queryVars
    /\ UNCHANGED lockVars

\* The ticker of MemoryCache.cleanup fires and cleanupExpired runs; the
\* loop has no exit.
Sweep ==
    /\ cache' = cleanupExpired(cache, clock)
    /\ UNCHANGED <<clock, summarize, returned, lastSet, stats, shutdownRequested>>
    /\ UNCHANGED collection
    /\ UNCHANGED queryVars
    /\ UNCHANGED lockVars

\* main receives the interrupt signal and shuts the HTTP server down: no
\* new request is accepted, the requests in flight complete.
Shutdown ==
    /\ ~shutdownRequested
    /\ shutdownRequested' = TRUE
    /\ UNCHANGED <<cache, clock, summarize, returned, lastSet, stats>>
    /\ UNCHANGED collection
    /\ UNCHANGED queryVars
    /\ UNCHANGED lockVars

Summarize ==
    \E articleID \in RequestIDs :
        \/ SummarizeArticle(articleID)
        \/ GetEvict(articleID)
        \/ GenerateAndCache(articleID)

CacheClient ==
    \/ \E articleID \in RequestIDs : CacheDelete(articleID)
    \/ CacheClear

NextCache ==
    \/ Summarize
    \/ CacheClient
    \/ Tick
    \/ Sweep
    \/ Shutdown

SpecCache == InitCache /\ [][NextCache]_vars

\* One caller that issues its calls one after the other: a call starts only
\* when the one before it has returned.
NextSequential ==
    \/ Summarize /\ BagCardinality(summarize') <= 1
    \/ CacheClient
    \/ Tick
    \/ Sweep
    \/ Shutdown

SpecSequential == InitCache /\ [][NextSequential]_vars

\* The ticker keeps firing and cleanupExpired gets the write lock (sync.RWMutex
\* does not starve writers): a sweep that has something to remove runs.
SpecCacheFair == SpecCache /\ WF_vars(Sweep)

\* The analysis alone, fed with the questions that name an organization and
\* a financial keyword.
NextAnalysis ==
    \/ Receive(AnalysisQuestions)
    \/ StepAnalyze

SpecAnalysis == Init /\ [][NextAnalysis]_vars

(***************************************************************************)
(* The methods of MemoryCache instruction by instruction, with the mutex.  *)
(***************************************************************************)
\* A goroutine calls a method of the cache.
Invoke(method, articleID) ==
    /\ BagCardinality(ops) < MaxCallers
    /\ ops' = ops (+) SetToBag({Op(method, articleID, "", 0)})
    /\ UNCHANGED mu
    /\ UNCHANGED <<collection, cacheVars, queryVars>>

\* The mutex after the instruction; RLock waits for the writer, Lock for
\* the writer and the readers.
Acquire(ins) ==
    /\ ins = "RLock" => ~mu.writer
    /\ ins = "Lock" => ~mu.writer /\ mu.readers = 0
    /\ mu' = IF ins = "RLock" THEN [mu EXCEPT !.readers = @ + 1]
             ELSE IF ins = "RUnlock" THEN [mu EXCEPT !.readers = @ - 1]
             ELSE IF ins = "Lock" THEN [mu EXCEPT !.writer = TRUE]
             ELSE IF ins = "Unlock" THEN [mu EXCEPT !.writer = FALSE]
             ELSE mu

\* A method in progress executes its next instruction; after the last one
\* it returns.
Execute(op) ==
    /\ BagIn(op, ops)
    /\ \E ins \in {NextInstruction(op)} :
          /\ Acquire(ins)
          /\ cache' = IF ins = "Write" THEN Written(cache, op, collection, clock) ELSE cache
          /\ \E branch \in {IF ins = "Read" /\ op.method = "Get"
                              THEN Get(cache, op.articleID, clock).kind ELSE op.branch} :
                ops' = IF op.pc + 1 = Len(Program(op.method, branch))
                       THEN ops (-) SetToBag({op})
                       ELSE (ops (-) SetToBag({op}))
                               (+) SetToBag({Op(op.method, op.articleID, branch, op.pc + 1)})
    /\ UNCHANGED <<clock, summarize, returned, lastSet, stats, shutdownRequested>>
    /\ UNCHANGED <<collection, queryVars>>

Operate ==
    \/ \E method \in Methods, articleID \in LockIDs : Invoke(method, articleID)
    \/ \E op \in BagToSet(ops) : Execute(op)

NextLock ==
    \/ Operate
    \/ Tick

SpecLock == InitCache /\ [][NextLock]_vars

(***************************************************************************)
(* Vocabulary of the properties.                                           *)
(***************************************************************************)
Responded == pc = "done" /\ response # Nil

WebSearchIssued == \E i \in 1..Len(calls) : calls[i].svc = "google"

CallFailed(op) == \E i \in 1..Len(calls) : calls[i].op = op /\ calls[i].failed

CallMade(op) == \E i \in 1..Len(calls) : calls[i].op = op

GenerationOps == {"generateDirectResponse", "generateResponseWithWebSearch", "generateResponse"}

\* At least 3 items with a mean relevance of at least 0.6.
SufficientEvidence(srcs) ==
    /\ Len(srcs) >= 3
    /\ 10 * SumOf(relevanceOf, srcs) >= 6 * One * Len(srcs)

\* The eligibility check passes for the question of the request.
Eligible ==
    /\ analysis # Nil
    /\ isDefenseAeronauticsQuestion(req.Question, analysis.CompanyNames)

\* The question names no organization and has no domain keyword.
NoOrgNoKeyword ==
    /\ analysis # Nil
    /\ analysis.CompanyNames = <<>>
    /\ ~ContainsAny(ToLower(req.Question), defenseKeywords)
    /\ ~ContainsAny(ToLower(req.Question), defenseCompanies)

IsRefusal(resp) ==
    /\ resp.Answer = RefusalAnswer
    /\ resp.Confidence = 0

(***************************************************************************)
(* C1.  With at least 3 retrieved items of mean relevance at least 0.6 the *)
(* request goes to the generation from the local evidence: no web search   *)
(* is issued, and a response, if one is returned, is the local-evidence    *)
(* response carrying that evidence, whatever the eligibility check says.   *)
(***************************************************************************)
C1_SufficientEvidenceAnswersLocally ==
    SufficientEvidence(sources) =>
        /\ pc \in {"generate", "done"}
        /\ ~WebSearchIssued
        /\ Responded => /\ strategy = "local-evidence"
                        /\ response.Sources = sources
                        /\ ~response.UsedWebSearch
                        /\ ~IsRefusal(response)

\* A question that fails the eligibility check is answered from sufficient
\* local evidence.
C1_Witness ==
    /\ Responded
    /\ SufficientEvidence(sources)
    /\ ~Eligible
    /\ strategy = "local-evidence"

(***************************************************************************)
(* C2.  When the eligibility check passes, a returned response is never    *)
(* the refusal and its confidence is positive, for every evidence count    *)
(* and relevance, zero retrieved articles included.                        *)
(***************************************************************************)
C2_EligibleNeverRefused ==
    (Responded /\ Eligible) =>
        /\ strategy \in {"local-evidence", "web-augmented", "direct-knowledge"}
        /\ response.Answer # RefusalAnswer
        /\ response.Confidence > 0
        /\ ~SufficientEvidence(sources) => strategy \in {"web-augmented", "direct-knowledge"}

\* An eligible question with no retrieved article got an answer.
C2_Witness ==
    /\ Responded
    /\ Eligible
    /\ sources = <<>>
    /\ strategy \in {"web-augmented", "direct-knowledge"}

C4_RefusedHasNoEvidence ==
    (Responded /\ (strategy = "refused" \/ response.Answer = RefusalAnswer)) =>
        /\ response.Confidence = 0
        /\ response.Sources = <<>>
        /\ response.WebSources = <<>>
        /\ ~response.UsedWebSearch

\* A refusal returned after three or more articles were retrieved.
C4_Witness ==
    /\ Responded
    /\ strategy = "refused"
    /\ Len(sources) >= 3

(***************************************************************************)
(* C5.  A failed web search does not fail the request: the direct          *)
(* generation call is made, and when it succeeds the response is the       *)
(* direct-knowledge one with confidence 0.7, no evidence and the           *)
(* web-search flag unset.                                                  *)
(***************************************************************************)
C5_SearchFailureFallsBackToDirect ==
    CallFailed("search") =>
        /\ pc \in {"direct", "done"}
        /\ pc = "done" =>
              /\ CallMade("generateDirectResponse")
              /\ ~CallMade("generateResponseWithWebSearch")
              /\ IF CallFailed("generateDirectResponse")
                 THEN response = Nil /\ err # ""
                 ELSE /\ err = ""
                      /\ status = 200
                      /\ response # Nil
                      /\ strategy = "direct-knowledge"
                      /\ response.Confidence = 7 * Tenth
                      /\ response.Sources = <<>>
                      /\ response.WebSources = <<>>
                      /\ ~response.UsedWebSearch

\* The search failed although articles had been retrieved, and an answer
\* was returned.
C5_Witness ==
    /\ Responded
    /\ CallFailed("search")
    /\ Len(sources) > 0

(***************************************************************************)
(* C6 as stated.  When the search yields no usable result the pipeline     *)
(* falls back to the direct-knowledge strategy: every web-augmented        *)
(* response carries at least one web evidence item.                        *)
(***************************************************************************)
C6_WebAugmentedHasEvidence ==
    /\ (Responded /\ WebSearchIssued /\ searchResults = <<>>) => strategy = "direct-knowledge"
    /\ (Responded /\ (strategy = "web-augmented" \/ response.UsedWebSearch)) =>
          Len(response.WebSources) >= 1

(***************************************************************************)
(* C7.  When the generative call of the analysis fails, ProcessQuery       *)
(* returns a service error and no response, and the analysis call is the   *)
(* only external call of the request.                                      *)
(***************************************************************************)
C7_AnalysisFailureAborts ==
    CallFailed("analyze") =>
        /\ pc = "done"
        /\ Len(calls) = 1
        /\ response = Nil
        /\ isError(err, ErrAIService)
        /\ status = 500
        /\ analysis = Nil

\* A request that passed the handler and whose analysis call failed, with
\* articles in the store.
C7_Witness ==
    /\ CallFailed("analyze")
    /\ collection # {}
    /\ req.Question # ""

(***************************************************************************)
(* C8.  When the generation call of the final answer fails, on any of the  *)
(* three paths, ProcessQuery returns a service error and no response.      *)
(***************************************************************************)
C8_GenerationFailureIsServiceError ==
    (\E op \in GenerationOps : CallFailed(op)) =>
        /\ pc = "done"
        /\ response = Nil
        /\ strategy = ""
        /\ isError(err, ErrAIService)
        /\ status = 500

\* The generation from the search results failed.
C8_Witness ==
    /\ CallFailed("generateResponseWithWebSearch")
    /\ Len(searchResults) > 0
    /\ pc = "done"

(***************************************************************************)
(* C9 as stated.  A question that is empty, whitespace-only or longer than *)
(* 1000 characters is rejected before any external call; a question of     *)
(* exactly 1000 characters is accepted and processed.                      *)
(***************************************************************************)
C9_LengthBoundary ==
    pc # "idle" =>
        IF TrimSpace(req.Question) = "" \/ RuneCount(req.Question) > MaxQuestionLen
        THEN status = 400 /\ calls = <<>> /\ pc = "done"
        ELSE pc = "analyze" \/ Len(calls) >= 1

(***************************************************************************)
(* C10 as stated.  Every item of every evidence list of the pipeline has a *)
(* relevance between 0 and 1 inclusive.                                    *)
(***************************************************************************)
C10_RelevanceInUnitInterval ==
    /\ \A i \in 1..Len(sources) :
          sources[i].RelevanceScore >= 0 /\ sources[i].RelevanceScore <= One
    /\ Responded =>
          \A i \in 1..Len(response.WebSources) :
             response.WebSources[i].Relevance >= 0 /\ response.WebSources[i].Relevance <= One

(***************************************************************************)
(* Vocabulary of C11: the candidates of the retrieval are the articles the *)
(* successful store queries of the request returned, converted and         *)
(* boosted, before the sort and the truncation.                            *)
(***************************************************************************)
RECURSIVE candidatesFrom(_)
candidatesFrom(i) ==
    IF i > Len(calls) THEN <<>>
    ELSE (IF calls[i].op = "ListArticles" /\ ~calls[i].failed
          THEN toSourceReferences(ListArticles(collection, calls[i].filter, FALSE).articles,
                                  analysis)
          ELSE <<>>) \o candidatesFrom(i + 1)

Candidates == candidatesFrom(1)

SeqToBag(s) ==
    [x \in {s[i] : i \in 1..Len(s)} |-> Cardinality({i \in 1..Len(s) : s[i] = x})]

Dropped == BagToSet(SeqToBag(Candidates) (-) SeqToBag(sources))

(***************************************************************************)
(* C11.  The evidence list kept by the retrieval has at most 10 items (all *)
(* the candidates when there are no more than 10), every item is one of    *)
(* the candidates, the list is sorted non-increasing by score, and no      *)
(* dropped candidate has a higher score than a kept item.                  *)
(***************************************************************************)
C11_TopTenSorted ==
    CallMade("ListArticles") =>
        /\ Len(sources) <= TopSources
        /\ err = "" => Len(sources) = IF Len(Candidates) > TopSources
                                       THEN TopSources ELSE Len(Candidates)
        /\ SeqToBag(sources) \sqsubseteq SeqToBag(Candidates)
        /\ \A i \in 1..(Len(sources) - 1) :
              sources[i].RelevanceScore >= sources[i + 1].RelevanceScore
        /\ \A d \in Dropped : \A i \in 1..Len(sources) :
              sources[i].RelevanceScore >= d.RelevanceScore

\* More than 10 candidates of differing scores: some are dropped, and the
\* kept list still has items of different scores.
C11_Witness ==
    /\ CallMade("ListArticles")
    /\ Len(Candidates) > TopSources
    /\ Len(sources) = TopSources
    /\ Dropped # {}
    /\ sources[1].RelevanceScore > sources[TopSources].RelevanceScore

(***************************************************************************)
(* C12.  Every response ProcessQuery returns, whatever the strategy and    *)
(* the evidence, has a confidence between 0 and 1 inclusive.               *)
(***************************************************************************)
C12_ConfidenceInUnitInterval ==
    Responded => response.Confidence >= 0 /\ response.Confidence <= One

\* A local-evidence response whose evidence has a mean relevance above 1
\* (boosted scores), so that the sum of the terms exceeds 1 and the clamp acts.
C12_Witness ==
    /\ Responded
    /\ strategy = "local-evidence"
    /\ Len(response.Sources) >= 5
    /\ SumOf(relevanceOf, response.Sources) > One * Len(response.Sources)
    /\ response.Confidence = One

(***************************************************************************)
(* Vocabulary of C13: the scoring formula of the specification.  Relevance *)
(* sums are counted in tenths and bonuses in hundredths; the mean is kept  *)
(* as a fraction and the comparison made on the common denominator.        *)
(***************************************************************************)
LocalCountBonus(n) == IF n >= 5 THEN 30 ELSE IF n >= 3 THEN 20 ELSE IF n >= 1 THEN 10 ELSE 0

WebCountBonus(n) == IF n >= 3 THEN 15 ELSE IF n >= 1 THEN 10 ELSE 0

CountOrOne(s) == IF Len(s) = 0 THEN 1 ELSE Len(s)

\* 100 * nl * nw times the unclamped score, nl and nw being the counts.
ScoreNumerator(srcs, webs) ==
    (50 + LocalCountBonus(Len(srcs)) + WebCountBonus(Len(webs)))
         * CountOrOne(srcs) * CountOrOne(webs)
      + 2 * (SumOf(relevanceOf, srcs) \div Tenth) * CountOrOne(webs)
      + (SumOf(webRelevanceOf, webs) \div Tenth) * CountOrOne(srcs)

\* c is the clamped score of the evidence.
IsFormulaScore(c, srcs, webs) ==
    IF ScoreNumerator(srcs, webs) > 100 * CountOrOne(srcs) * CountOrOne(webs)
    THEN c = One
    ELSE c * CountOrOne(srcs) * CountOrOne(webs) = (One \div 100) * ScoreNumerator(srcs, webs)

(***************************************************************************)
(* C13.  The confidence of every evidence-backed response (local-evidence  *)
(* or web-augmented) is the scoring formula applied to the evidence        *)
(* attached to it: 0.5, the count bonuses, 0.2 times the mean local        *)
(* relevance and 0.1 times the mean web relevance, clamped to [0,1].       *)
(***************************************************************************)
C13_ConfidenceIsFormula ==
    ( /\ Responded
      /\ strategy \in {"local-evidence", "web-augmented"}
      /\ Len(response.Sources) + Len(response.WebSources) > 0 ) =>
        IsFormulaScore(response.Confidence, response.Sources, response.WebSources)

\* The part of C13 the code satisfies: the local-evidence responses.
C13_LocalConfidenceIsFormula ==
    (Responded /\ strategy = "local-evidence") =>
        IsFormulaScore(response.Confidence, response.Sources, response.WebSources)


(***************************************************************************)
(* Vocabulary of the cache properties.                                     *)
(***************************************************************************)
\* This step is the start of a SummarizeArticle call for the id, that is the
\* read-locked section of its cache.Get.
CallStarts(id) == stats'[id].started = stats[id].started + 1

\* The call that starts in this step is answered from the cache.
CallHits(id) == CallStarts(id) /\ summarize' = summarize /\ returned'.hit

\* This step is the eviction by a Get that found the entry expired.
Evicts(id) ==
    summarize' = Enter(Leave(summarize, Call("evict", id)), Call("miss", id))

\* The calls for the id that are in flight.
InFlight(id) ==
    CopiesIn(Call("evict", id), summarize) + CopiesIn(Call("miss", id), summarize)

\* The instant at which the entry last set for the id expires.
SetExpiry(id) == lastSet[id].at + lastSet[id].ttl

\* C14: after Set(id, summary, ttl) and no other operation on the key, a Get
\* before the ttl has elapsed returns the content that was set; a Get after
\* the ttl has elapsed is a miss, and the eviction it performs leaves the map
\* without the key.
C14_RoundTrip ==
    [][\A id \in RequestIDs :
         /\ (CallStarts(id) /\ lastSet[id] # Nil /\ clock < SetExpiry(id)) =>
               /\ CallHits(id)
               /\ returned'.articleID = id
               /\ returned'.err = ""
               /\ returned'.response.Summary = lastSet[id].summary
         /\ (CallStarts(id) /\ lastSet[id] # Nil /\ clock > SetExpiry(id)) =>
               /\ ~CallHits(id)
               /\ summarize' = Enter(summarize,
                      Call(IF id \in DOMAIN cache THEN "evict" ELSE "miss", id))
         /\ Evicts(id) => id \notin DOMAIN cache'
      ]_vars

\* A summary was generated once and served from the cache; after its ttl a
\* call found the entry expired and evicted it.
C14_Witness ==
    \E id \in RequestIDs :
        /\ returned # Nil /\ returned.hit /\ returned.articleID = id
        /\ stats[id].invoked = 1
        /\ clock > returned.response.GeneratedAt + CacheTTL
        /\ BagIn(Call("miss", id), summarize)
        /\ lastSet[id] = Nil
        /\ id \notin DOMAIN cache


\* C15: whatever Get, Set, Delete, Clear and the sweep do in between, a call
\* is answered from the cache only with an entry whose expiry instant has not
\* passed.
C15_NeverServesExpired ==
    [][\A id \in RequestIDs :
         CallHits(id) =>
            /\ id \in DOMAIN cache
            /\ ~After(clock, cache[id].ExpiresAt)
            /\ returned'.response = cachedResponse(cache[id])
      ]_vars

\* An entry that was served from the cache has expired and is still in the
\* map; the call that looked it up has not been answered with it.
C15_Witness ==
    \E id \in RequestIDs :
        /\ id \in DOMAIN cache
        /\ After(clock, cache[id].ExpiresAt)
        /\ BagIn(Call("evict", id), summarize)
        /\ returned # Nil /\ returned.hit /\ returned.articleID = id
        /\ returned.response.Summary = cache[id].Summary


\* The last call that returned was for the id and returned a summary.
ReturnedSummary(id) ==
    returned # Nil /\ returned.articleID = id /\ returned.response # Nil

\* C16: calls for an id issued one after the other inside the TTL window of
\* its cached summary, with no invalidation of the key, all return the same
\* content and the generation service produces it once: a call that finds the
\* summary cached returns it without invoking the service, and the service is
\* invoked only by a call that missed.
C16_SequentialCallsGenerateOnce ==
    [][\A id \in RequestIDs :
         /\ (CallStarts(id) /\ lastSet[id] # Nil /\ clock <= SetExpiry(id)) =>
               /\ CallHits(id)
               /\ returned'.response.Summary = lastSet[id].summary
               /\ stats'[id].invoked = stats[id].invoked
               /\ stats'[id].generated = stats[id].generated
         /\ stats'[id].invoked # stats[id].invoked =>
               /\ BagIn(Call("miss", id), summarize)
               /\ stats'[id].invoked = stats[id].invoked + 1
         /\ (~stats'[id].disturbed /\ clock' <= CacheTTL) =>
               /\ Cardinality(stats'[id].generated) <= 1
               /\ ReturnedSummary(id)' => returned'.response.Summary \in stats'[id].generated
      ]_vars

\* Three calls one after the other, the last at the very end of the window:
\* one generation, the last call answered from the cache.
C16_Witness ==
    \E id \in RequestIDs :
        /\ stats[id].started = 3 /\ stats[id].invoked = 1
        /\ ~stats[id].disturbed
        /\ InFlight(id) = 0
        /\ ReturnedSummary(id) /\ returned.hit
        /\ returned.response.Summary \in stats[id].generated
        /\ clock = returned.response.GeneratedAt + CacheTTL


\* The article of the id is in the store.
Stored(id) == \E a \in collection : a.ID = id

\* An entry of the cache as Set builds it from a generated response.
WellFormed(k) ==
    /\ cache[k].ArticleID = k
    /\ cache[k].Summary \in stats[k].generated
    /\ \E a \in collection :
          a.ID = k /\ cache[k].OriginalTitle = a.Title /\ cache[k].SourceURL = a.SourceURL
    /\ cache[k].CachedAt <= clock
    /\ cache[k].ExpiresAt = cache[k].CachedAt + CacheTTL

\* C17: of the calls made for an article, concurrent ones included, no more
\* invoke the generation service than were made, and once they have all
\* returned at least one has; a caller that is given a summary is given one
\* the service generated for that article; every entry of the cache is well
\* formed; and when the calls for an article that was not cached have
\* returned, the cache holds its entry, with the summary that was set last.
C17_ConcurrentMissesBounded ==
    /\ \A id \in RequestIDs :
          /\ stats[id].invoked + InFlight(id) <= stats[id].started
          /\ (Stored(id) /\ stats[id].started > 0 /\ InFlight(id) = 0) =>
                stats[id].invoked >= 1
          /\ ReturnedSummary(id) =>
                /\ returned.err = ""
                /\ returned.response.ArticleID = id
                /\ returned.response.Summary \in stats[id].generated
          /\ (InFlight(id) = 0 /\ stats[id].generated # {}
                /\ ~stats[id].disturbed /\ clock <= CacheTTL) =>
                /\ id \in DOMAIN cache
                /\ cache[id].Summary = lastSet[id].summary
    /\ \A k \in DOMAIN cache : k \in RequestIDs /\ WellFormed(k)

\* Two calls for the same uncached article overlapped: both missed, both
\* generated, and the cache holds the summary of the one that set last.
C17_Witness ==
    \E id \in RequestIDs :
        /\ stats[id].started = 2 /\ stats[id].invoked = 2
        /\ Cardinality(stats[id].generated) = 2
        /\ ~stats[id].disturbed /\ clock <= CacheTTL
        /\ InFlight(id) = 0
        /\ id \in DOMAIN cache /\ WellFormed(id)
        /\ ReturnedSummary(id) /\ returned.response.Summary = cache[id].Summary


\* The map holds an entry for the id whose expiry instant has passed.
Expired(id) == id \in DOMAIN cache /\ After(clock, cache[id].ExpiresAt)

\* C18: while the ticker keeps firing, an entry whose expiry instant has
\* passed does not stay in the map, whether or not anybody asks for the key
\* again.
C18_ExpiredEventuallySwept ==
    \A id \in RequestIDs : Expired(id) ~> ~Expired(id)

\* An entry expired and is gone although no call found it expired and nobody
\* deleted it: the sweep removed it.
C18_Witness ==
    \E id \in RequestIDs :
        /\ lastSet[id] # Nil /\ After(clock, SetExpiry(id))
        /\ ~stats[id].disturbed
        /\ InFlight(id) = 0
        /\ id \notin DOMAIN cache


\* This step is a run of cleanupExpired that removes something: the map
\* shrinks and no call, Delete or Clear is the cause.
SweepRemoves ==
    /\ cache' # cache
    /\ cache' = cleanupExpired(cache, clock)
    /\ UNCHANGED <<summarize, returned, lastSet, stats>>

\* C19: once shutdown has been requested the sweep task sweeps no more.
C19_NoSweepAfterShutdown ==
    [][shutdownRequested => ~SweepRemoves]_vars

\* Every entry of the map has a last Set on record, so that Delete and Clear
\* never leave lastSet as it was.
CachedWasSet == \A k \in DOMAIN cache : lastSet[k] # Nil


\* strings.Contains without regard to letter case.
ContainsFold(s, substr) ==
    \E i \in 1..(Len(s) - Len(substr) + 1) :
        ToLower(SubSeq(s, i, i + Len(substr) - 1)) = substr

NamesCompany(an, name) ==
    \E i \in 1..Len(an.CompanyNames) : an.CompanyNames[i] = name

\* C20: the analysis of a question that contains an organization alias and
\* a financial keyword, in whatever letter case and whether or not it also
\* contains a contract keyword, has the query type financial and names the
\* organization of the alias.
C20_AliasAndFinancialKeyword ==
    analysis # Nil =>
        \A a \in OrganizationAliases :
            (/\ ContainsFold(req.Question, a.alias)
             /\ \E k \in FinancialKeywords : ContainsFold(req.Question, k)) =>
                /\ analysis.QueryType = QueryTypeFinancial
                /\ NamesCompany(analysis, a.name)

\* A question with the alias in capitals, a capitalized financial keyword
\* and a contract keyword in capitals after them has been analysed.
C20_Witness ==
    /\ analysis # Nil
    /\ Contains(req.Question, "RAYTHEON")
    /\ Contains(req.Question, "Earnings")
    /\ HasSuffix(req.Question, "AWARD")
    /\ analysis.QueryType = QueryTypeFinancial
    /\ NamesCompany(analysis, RTX)


\* A generation call (direct, web-augmented or local-evidence) was made.
GenerationIssued == \E i \in 1..Len(calls) : calls[i].op \in GenerationOps

\* The request in hand asks about a company outside the defense domain that
\* the store does not know.
AsksAboutApple == req # Nil /\ req.Question = "Who founded Apple Inc?"

\* C21: the question "Who founded Apple Inc?", about a non-defense company
\* that is not in the database, is rejected: it fails the eligibility check,
\* no web search is issued for it, no answer is generated, and the response
\* it gets is the refusal.
C21_NonDefenseCompanyRejected ==
    AsksAboutApple =>
        /\ analysis # Nil =>
              ~isDefenseAeronauticsQuestion(req.Question, analysis.CompanyNames)
        /\ ~WebSearchIssued
        /\ ~GenerationIssued
        /\ Responded => strategy = "refused" /\ IsRefusal(response)


\* The stage of ProcessQuery an external call belongs to.
Stage(call) ==
    IF call.op = "analyze" THEN 1
    ELSE IF call.op = "ListArticles" THEN 2
    ELSE IF call.op = "search" THEN 3
    ELSE 4

CallsOfStage(n) == {i \in 1..Len(calls) : Stage(calls[i]) = n}

\* C22: the external calls of one ProcessQuery execution are made in the
\* order analysis, evidence-store retrieval, web search, final generation,
\* each after the one before it has returned: an execution that gets past
\* its input check starts with exactly one analysis call, nothing follows an
\* analysis that failed, and at most one web search and at most one final
\* generation call are made.
C22_CallsInStageOrder ==
    /\ \A i, j \in 1..Len(calls) : i < j => Stage(calls[i]) <= Stage(calls[j])
    /\ calls # <<>> => calls[1].op = "analyze"
    /\ Cardinality(CallsOfStage(1)) <= 1
    /\ Cardinality(CallsOfStage(3)) <= 1
    /\ Cardinality(CallsOfStage(4)) <= 1
    /\ pc \in {"retrieve", "search", "direct", "websearch", "generate"} =>
          Cardinality(CallsOfStage(1)) = 1
    /\ (calls # <<>> /\ calls[1].failed) => Len(calls) = 1 /\ pc = "done"
    /\ Responded => Cardinality(CallsOfStage(1)) = 1 /\ CallsOfStage(2) # {}
    /\ \A i \in CallsOfStage(4) : i = Len(calls) /\ pc = "done"

\* A request went through all four stages: the analysis, two store queries,
\* the web search and the generation from its results.
C22_Witness ==
    /\ Responded
    /\ strategy = "web-augmented"
    /\ Cardinality(CallsOfStage(1)) = 1
    /\ Cardinality(CallsOfStage(2)) >= 2
    /\ Cardinality(CallsOfStage(3)) = 1
    /\ Cardinality(CallsOfStage(4)) = 1


\* The filters of the evidence-store queries of the request, in call order.
StoreQueries == SelectSeq(calls, LAMBDA c : c.op = "ListArticles")

\* C23: every evidence-store query of the retrieval carries a time window,
\* the explicit one of the analysis when it has one and a start bound 90
\* days before now otherwise; no query goes out without any date bound.
C23_QueriesCarryTimeWindow ==
    \A i \in 1..Len(StoreQueries) :
        LET filter == StoreQueries[i].filter
        IN  /\ filter.StartDate # Nil \/ filter.EndDate # Nil
            /\ IF analysis.TimeWindow # Nil
               THEN /\ filter.StartDate = analysis.TimeWindow.StartDate
                    /\ filter.EndDate = analysis.TimeWindow.EndDate
               ELSE /\ filter.StartDate = [day |-> Now - RecentDays]
                    /\ filter.EndDate = Nil

\* The part of C23 the code keeps: without a window in the analysis the
\* queries start 90 days before now.
C23_DefaultWindowIsNinetyDays ==
    \A i \in 1..Len(StoreQueries) :
        analysis.TimeWindow = Nil =>
            /\ StoreQueries[i].filter.StartDate = [day |-> Now - RecentDays]
            /\ StoreQueries[i].filter.EndDate = Nil


\* The organizations known for the request: the analyzed names and the
\* hinted ones, as a set.
KnownOrganizations ==
    {analysis.CompanyNames[i] : i \in 1..Len(analysis.CompanyNames)}
        \cup {req.CompanyContext[i] : i \in 1..Len(req.CompanyContext)}

\* C24: the retrieval issues one evidence-store query per organization of
\* the union of the analyzed and the hinted names, a name that is in both
\* being queried once, and one unscoped query when no organization is known;
\* every query is bounded to 20 records.
C24_OneQueryPerOrganization ==
    StoreQueries # <<>> =>
        /\ \A i \in 1..Len(StoreQueries) :
              StoreQueries[i].filter.Limit = RetrievalLimit /\ StoreQueries[i].filter.Offset = 0
        /\ IF KnownOrganizations = {}
           THEN Len(StoreQueries) = 1 /\ StoreQueries[1].filter.Company = ""
           ELSE /\ Len(StoreQueries) = Cardinality(KnownOrganizations)
                /\ {StoreQueries[i].filter.Company : i \in 1..Len(StoreQueries)}
                      = KnownOrganizations

\* The part of C24 the code keeps: one query per name of the concatenated
\* list, in its order, or one unscoped query; each bounded to 20 records.
C24_OneQueryPerListedName ==
    StoreQueries # <<>> =>
        LET companies == analysis.CompanyNames \o req.CompanyContext
        IN  /\ \A i \in 1..Len(StoreQueries) : StoreQueries[i].filter.Limit = RetrievalLimit
            /\ IF companies = <<>>
               THEN Len(StoreQueries) = 1 /\ StoreQueries[1].filter.Company = ""
               ELSE /\ Len(StoreQueries) = Len(companies)
                    /\ \A i \in 1..Len(companies) :
                          StoreQueries[i].filter.Company = companies[i]


\* A stable sort by non-increasing score: each item is put behind the items
\* before it that score at least as much.
RECURSIVE InsertStable(_, _)
InsertStable(x, s) ==
    IF s = <<>> THEN <<x>>
    ELSE IF Head(s).RelevanceScore >= x.RelevanceScore
         THEN <<Head(s)>> \o InsertStable(x, Tail(s))
         ELSE <<x>> \o s

RECURSIVE StableSortFrom(_, _, _)
StableSortFrom(s, i, sorted) ==
    IF i > Len(s) THEN sorted
    ELSE StableSortFrom(s, i + 1, InsertStable(s[i], sorted))

StableSort(s) == StableSortFrom(s, 1, <<>>)

\* No article was retrieved twice.
DistinctCandidates ==
    \A i, j \in 1..Len(Candidates) : i # j => Candidates[i] # Candidates[j]

\* C25: the ranked evidence list is the stable sort of the candidates:
\* candidates of equal score keep their retrieval order.  Stated for
\* retrievals in which every article was retrieved once.
C25_TiesKeepRetrievalOrder ==
    (CallMade("ListArticles") /\ err = "" /\ DistinctCandidates) =>
        sources = Take(StableSort(Candidates), TopSources)

\* The part of C25 the code keeps: the list is a function of the candidates
\* in their retrieval order, the exchange sort of rankArticlesByRelevance.
C25_RankingIsDeterministic ==
    (CallMade("ListArticles") /\ err = "") =>
        sources = Take(sortOuter(Candidates, 1), TopSources)


\* The instructions of the method that the operation has executed.
Executed(op) == SubSeq(Program(op.method, op.branch), 1, op.pc)

Count(s, ins) == Cardinality({i \in 1..Len(s) : s[i] = ins})

\* The read locks and the write locks the operation holds.
HeldR(op) == Count(Executed(op), "RLock") - Count(Executed(op), "RUnlock")

HeldW(op) == Count(Executed(op), "Lock") - Count(Executed(op), "Unlock")

\* The locks held by all the operations in progress.
RECURSIVE TotalHeld(_, _)
TotalHeld(S, kind) ==
    IF S = {} THEN 0
    ELSE LET op == CHOOSE o \in S : TRUE
         IN  CopiesIn(op, ops) * (IF kind = "R" THEN HeldR(op) ELSE HeldW(op))
               + TotalHeld(S \ {op}, kind)

\* C26: the map is written only by an operation that holds the write lock,
\* alone, and read only by an operation that holds a read lock while nobody
\* holds the write lock, in Get with its eviction, Set, Delete, Clear, the
\* sweep and the statistics; the mutex is held exactly by the operations
\* that acquired it and did not release it yet, no operation releases a lock
\* it does not hold or returns holding one.
C26_LockDiscipline ==
    /\ mu.readers = TotalHeld(BagToSet(ops), "R")
    /\ mu.writer <=> TotalHeld(BagToSet(ops), "W") = 1
    /\ ~(mu.writer /\ mu.readers > 0)
    /\ ops = EmptyBag => mu = Unlocked
    /\ \A op \in BagToSet(ops) :
          /\ HeldR(op) \in {0, 1} /\ HeldW(op) \in {0, 1}
          /\ NextInstruction(op) = "Write" =>
                /\ HeldW(op) = 1 /\ CopiesIn(op, ops) = 1
                /\ mu.writer /\ mu.readers = 0
          /\ NextInstruction(op) = "Read" =>
                /\ HeldR(op) = 1
                /\ mu.readers >= 1 /\ ~mu.writer
          /\ NextInstruction(op) \in {"RUnlock"} => HeldR(op) = 1
          /\ NextInstruction(op) \in {"Unlock"} => HeldW(op) = 1
          /\ LET all == Program(op.method, op.branch)
             IN  /\ Count(all, "RLock") = Count(all, "RUnlock")
                 /\ Count(all, "Lock") = Count(all, "Unlock")

\* A Get holds the write lock for its eviction, the expired entry still in
\* the map, while another operation is in progress.
C26_Witness ==
    /\ BagIn(Op("Get", "r1", "expired", 4), ops)
    /\ mu = [readers |-> 0, writer |-> TRUE]
    /\ BagCardinality(ops) > 1
    /\ "r1" \in DOMAIN cache


\* C27: the eviction of Get removes an entry only if the entry is expired
\* at the moment it is removed, so that an entry stored by a Set between the
\* expiry check of a Get and its delete stays in the map.
C27_EvictionRemovesOnlyExpired ==
    [][\A id \in RequestIDs :
         (Evicts(id) /\ id \in DOMAIN cache) => After(clock, cache[id].ExpiresAt)
      ]_vars


\* C28: when the analysis call succeeds the analysis is a function of the
\* question alone: whatever the model answered, well formed or not, the
\* query type, the organization names, the keywords and the time window
\* that ProcessQuery goes on with are the ones every other answer would have
\* given.
C28_AnalysisIgnoresModelOutput ==
    (pc = "retrieve" /\ analysis # Nil) =>
        \A content \in AnalysisContents :
            LET other == AnalyzeQuery(req.Question, [kind |-> "ok", content |-> content])
            IN  /\ other.err = ""
                /\ other.analysis.QueryType = analysis.QueryType
                /\ other.analysis.CompanyNames = analysis.CompanyNames
                /\ other.analysis.Keywords = analysis.Keywords
                /\ other.analysis.TimeWindow = analysis.TimeWindow

\* A question with a financial keyword was analysed as financial for the
\* organization it names, a model output that names the type contracts and
\* another company being among the answers the model can give.
C28_Witness ==
    /\ pc = "retrieve"
    /\ analysis # Nil
    /\ analysis.QueryType = QueryTypeFinancial
    /\ analysis.CompanyNames = <<RTX>>
    /\ \E content \in AnalysisContents :
          /\ Contains(content, "contracts")
          /\ Contains(content, "Lockheed Martin")
          /\ [kind |-> "ok", content |-> content] \in AnalysisOutcomes

(***************************************************************************)
(* Failures of the evidence store during the retrieval.                    *)
(***************************************************************************)
ScopedQueries == SelectSeq(StoreQueries, LAMBDA c : c.filter.Company # "")

UnscopedQueries == SelectSeq(StoreQueries, LAMBDA c : c.filter.Company = "")

RetrievalError == wrapError(ErrAIService, "failed to retrieve articles")

\* The articles a query that succeeded has listed.
ListedBy(call) == IF call.failed THEN <<>> ELSE List(collection, call.filter)

\* C29: a failure of a store query for one organization never fails the
\* request: the retrieval does not return an error, the evidence holds only
\* what the queries that succeeded have listed, and when every query failed
\* the evidence is empty and the request is answered web-augmented, from
\* direct knowledge or with the refusal, never from local evidence.  A
\* failure of the single query without an organization fails the request
\* with the service error, no search and no generation call being made.
C29_StoreFailureHandling ==
    /\ Len(ScopedQueries) > 0 =>
          /\ err # RetrievalError
          /\ (pc = "done" /\ err # "") => \E op \in GenerationOps : CallFailed(op)
          /\ \A i \in 1..Len(sources) :
                \E j \in 1..Len(ScopedQueries) :
                    \E k \in 1..Len(ListedBy(ScopedQueries[j])) :
                        ListedBy(ScopedQueries[j])[k].ID = sources[i].ArticleID
          /\ (\A j \in 1..Len(ScopedQueries) : ScopedQueries[j].failed) =>
                /\ sources = <<>>
                /\ ~CallMade("generateResponse")
                /\ Responded => strategy \in {"web-augmented", "direct-knowledge", "refused"}
    /\ (\E j \in 1..Len(UnscopedQueries) : UnscopedQueries[j].failed) =>
          /\ pc = "done"
          /\ response = Nil
          /\ err = RetrievalError
          /\ status = 500
          /\ ~WebSearchIssued
          /\ ~GenerationIssued

\* Of two queries, one per organization, the first failed and the second
\* listed the evidence of the answer.
C29_Witness ==
    /\ Responded
    /\ Len(ScopedQueries) = 2
    /\ ScopedQueries[1].failed
    /\ ~ScopedQueries[2].failed
    /\ Len(sources) > 0

\* Every query for an organization failed and the request was answered
\* after a web search.
C29_AllFailedWitness ==
    /\ Responded
    /\ Len(ScopedQueries) > 0
    /\ \A j \in 1..Len(ScopedQueries) : ScopedQueries[j].failed
    /\ strategy = "web-augmented"

\* The query without an organization failed.
C29_UnscopedWitness ==
    /\ pc = "done"
    /\ Len(UnscopedQueries) = 1
    /\ UnscopedQueries[1].failed

(***************************************************************************)
(* The evidence attached to a response.                                    *)
(***************************************************************************)
\* C30: the evidence of a response follows from its strategy: local
\* evidence is attached only to local-evidence responses, where it is the
\* retrieved evidence, web evidence only to web-augmented responses, never
\* both; the web-search flag is set exactly on web-augmented responses; and
\* retrieved items that did not pass the gate are in no response.
C30_EvidenceFollowsStrategy ==
    Responded =>
        /\ response.Sources # <<>> => strategy = "local-evidence"
        /\ strategy = "local-evidence" => response.Sources = sources
        /\ response.WebSources # <<>> => strategy = "web-augmented"
        /\ ~(response.Sources # <<>> /\ response.WebSources # <<>>)
        /\ response.UsedWebSearch <=> strategy = "web-augmented"
        /\ insufficientContext(sources) => response.Sources = <<>>

\* Items were retrieved, did not pass the gate, and the response carries the
\* evidence of the web search alone.
C30_Witness ==
    /\ Responded
    /\ strategy = "web-augmented"
    /\ Len(sources) > 0
    /\ insufficientContext(sources)
    /\ response.Sources = <<>>
    /\ response.WebSources # <<>>
    /\ response.UsedWebSearch

\* Items were retrieved, passed the gate and are the evidence of the
\* response.
C30_LocalWitness ==
    /\ Responded
    /\ strategy = "local-evidence"
    /\ response.Sources = sources
    /\ Len(sources) >= MinSources

====
